---- MODULE Spec2Model ----
(***************************************************************************)
(* A model of cdb_benchmark's coin-name index: the row-file forest         *)
(* (cdb/hashdb/row_array_db.py, cdb/row_array_storage.py), the coinbase    *)
(* codec and the block-ingestion pipeline (cdb/schemas/hash_db_schema.py,  *)
(* cdb/schema.py) and the replay driver (cdb/cmds).                        *)
(*                                                                         *)
(* A 32-byte hash is modelled in the forest by a natural number that       *)
(* stands for its rank in the lexicographic order of bytes, so that the    *)
(* source's comparisons of bytes are comparisons of naturals.  A Row is    *)
(* the pair <<hash, id>>.                                                  *)
(***************************************************************************)
EXTENDS Integers, Sequences, FiniteSets, TLC

VARIABLES
    db_files,       \* RowArrayDB._db_files: the dict, as the sequence of its items in insertion order
    row_count,      \* RowArrayDB._row_count
    forest_ok,      \* FALSE once an assert of add_rows or merge has failed
    add_calls,      \* history: number of add_rows calls made
    added_rows,     \* history: every row ever passed to add_rows, in call order
    batch_sizes,    \* history: the sum of the sizes of the batches passed to add_rows
    last_add,       \* history: what the last add_rows call saw (its batch, the dict before merge())
    find_out,       \* the last RowArrayDB.find_hashes call: its query and what it returned
    special_calls,  \* history: number of add_rows calls whose batch was drawn freely
    merge_run,      \* an add_rows call that reaches merge(), run step by step: where it stands and the files on disk
    codec,          \* the last call of the coinbase codec: its argument and what it returned
    pending_blocks,      \* BaseDBSchema._pending_blocks, each block with the order in which set(confirms) iterates
    pending_coin_count,  \* BaseDBSchema._pending_coin_count
    coin_table,     \* table coin as the connection of the loading process sees it, in rowid order
    block_table,    \* table block as the connection of the loading process sees it, in rowid order
    sql_seq,        \* the AUTOINCREMENT counter of table coin (sqlite_sequence)
    committed,      \* the tables as of the last commit: [coin, block]
    status,         \* "ok", or the exception that ended the loading process
    last_op,        \* history: the last call made: "none", "accept", "flush" or "dump"
    flush_calls,    \* history: number of flush() calls made by the driver
    stream,         \* history: the blocks passed to accept_block, in call order
    store_log,      \* history: for each block whose confirms were inserted, the coins in INSERT order and their ids
    dump_out,       \* what dump_blocks printed and how it ended
    last_flush      \* history: what the last flush() started from, the blocks it was to store and the names it asked the forest for

forestVars == <<db_files, row_count, forest_ok, add_calls, added_rows, batch_sizes,
                last_add, find_out, special_calls>>

pipeVars == <<pending_blocks, pending_coin_count, coin_table, block_table, sql_seq,
              committed, status, last_op, flush_calls, stream, store_log, dump_out, last_flush>>

vars == <<forestVars, merge_run, codec, pipeVars>>

----------------------------------------------------------------------------
(* Bounds of the model. *)

MaxAdds == 11           \* add_rows calls in one behaviour
MaxSpecial == 1         \* add_rows calls whose batch is drawn freely (the others add one fresh row)
MaxHash == 2            \* freely drawn batches take their hashes from MaxHash values
MaxBatch == 2           \* rows in a freely drawn batch
MaxQuery == 2           \* hashes in one find_hashes query
MaxIndex == 600         \* the codec is asked to decode the integers -MaxIndex .. 1

(* Program constants. *)
MergeThreshold == 10    \* _select_db_files_to_merge: "if len(self._db_files) < 10"
MaxSearchHash == 4      \* the files of the search comparison take their hashes from 1..MaxSearchHash
MaxFileRows == 4        \* rows in a file of the search comparison
MaxSearchQuery == 3     \* hashes in a query of the search comparison

\* Python's None where a Row is expected.
None == <<>>

----------------------------------------------------------------------------
(* Helpers on sequences. *)

\* LET x == v IN F(x), with v evaluated once however often F uses x.
Bind(v, F(_)) == CHOOSE r \in {F(x) : x \in {v}} : TRUE

Range(s) == {s[i] : i \in DOMAIN s}

RECURSIVE SumSeq(_)
SumSeq(s) == IF s = <<>> THEN 0 ELSE Head(s) + SumSeq(Tail(s))

\* The sequences over S of length at most n.
RECURSIVE SeqsUpTo(_, _)
SeqsUpTo(S, n) ==
    IF n = 0 THEN {<<>>}
    ELSE LET shorter == SeqsUpTo(S, n - 1)
         IN  shorter \cup {Append(s, x) : s \in shorter, x \in S}

\* The sequences over S of length at most n without a repeated element.
DistinctSeqs(S, n) ==
    {s \in SeqsUpTo(S, n) : \A i, j \in DOMAIN s : s[i] = s[j] => i = j}

\* The orders in which a Python set holding the elements of S may be iterated.
Orders(S) == {s \in DistinctSeqs(S, Cardinality(S)) : Len(s) = Cardinality(S)}

\* list(a_set): the elements of S in the order `ord` iterates them.
SetToList(S, ord) == SelectSeq(ord, LAMBDA x : x \in S)

\* The number of i with s[i] = x.
Count(s, x) == Cardinality({i \in DOMAIN s : s[i] = x})

----------------------------------------------------------------------------
(* cdb/hashdb/flat_file_array_storage.py: one sorted row file. *)

\* create_with_rows whose handle caches the row count of an empty file.
create_with_rows_stale(path, rows) ==
    [path |-> path, rows |-> rows, row_count |-> 0]

\* FlatFileDB.create_with_rows: write the rows in the order given; the handle
\* caches the row count derived from the file size.
create_with_rows(path, rows) ==
    [path |-> path, rows |-> rows, row_count |-> Len(rows)]

\* FlatFileDB.requery_count: file size // ROW_SIZE.
requery_count(db) == Len(db.rows)

\* FlatFileDB.read_row(index): the index-th record, 0-based; None when the
\* file holds no such record.
read_row(db, index) ==
    IF index >= 0 /\ index < Len(db.rows) THEN db.rows[index + 1] ELSE None

----------------------------------------------------------------------------
(* cdb/row_array_storage.py: sorted_merged_rows. *)

\* Python's order on (hash, id) tuples.
RowLess(a, b) == a[1] < b[1] \/ (a[1] = b[1] /\ a[2] < b[2])

\* min(indices, key=row): the first index whose row no other row is below.
MinRowIndex(its) ==
    CHOOSE i \in DOMAIN its :
        /\ \A j \in DOMAIN its : ~RowLess(Head(its[j]), Head(its[i]))
        /\ \A j \in DOMAIN its : j < i => RowLess(Head(its[i]), Head(its[j]))

\* The loop of sorted_merged_rows over the iterators that still hold a row.
RECURSIVE MergeLoop(_)
MergeLoop(its) ==
    IF its = <<>> THEN <<>>
    ELSE LET smallest_index == MinRowIndex(its)
             rest == Tail(its[smallest_index])
             next_its ==
                 IF rest = <<>>
                 THEN SubSeq(its, 1, smallest_index - 1)
                          \o SubSeq(its, smallest_index + 1, Len(its))
                 ELSE [its EXCEPT ![smallest_index] = rest]
         IN  <<Head(its[smallest_index])>> \o MergeLoop(next_its)

\* sorted_merged_rows that reads the first file only.
sorted_merged_rows_first(db_list) == db_list[1].rows

sorted_merged_rows(db_list) ==
    MergeLoop(SelectSeq([i \in DOMAIN db_list |-> db_list[i].rows],
                        LAMBDA rows : rows # <<>>))

----------------------------------------------------------------------------
(* cdb/hashdb/row_array_db.py: the multi-key binary search in one file. *)

\* find_hash_inner with the upper half cut one ordinal short.
RECURSIVE find_hash_inner_short(_, _, _, _)
find_hash_inner_short(db, h, lower_bound, upper_bound) ==
    IF lower_bound >= upper_bound THEN None
    ELSE LET mid == (upper_bound + lower_bound) \div 2
             row == read_row(db, mid)
         IN  IF row = None THEN None
             ELSE IF row[1] = h THEN row
             ELSE IF row[1] < h THEN find_hash_inner_short(db, h, mid + 1, upper_bound)
             ELSE find_hash_inner_short(db, h, lower_bound, mid - 1)

\* _find_hash_inner: binary search for h in the ordinals [lower_bound,
\* upper_bound) of db; the row found, or None.
RECURSIVE find_hash_inner(_, _, _, _)
find_hash_inner(db, h, lower_bound, upper_bound) ==
    IF lower_bound >= upper_bound THEN None
    ELSE LET mid == (upper_bound + lower_bound) \div 2
             row == read_row(db, mid)
         IN  IF row = None THEN None
             ELSE IF row[1] = h THEN row
             ELSE IF row[1] < h THEN find_hash_inner(db, h, mid + 1, upper_bound)
             ELSE find_hash_inner(db, h, lower_bound, mid)

\* The rows that the "for h in hs" loop appends to so_far: one copy of row
\* for each h of hs equal to the hash of row.
EqualRows(row, hs) ==
    LET eq == SelectSeq(hs, LAMBDA h : row[1] = h)
    IN  [i \in DOMAIN eq |-> row]

\* _find_hashes_inner_bs that descends for the hashes below row mid into
\* [lower_bound, mid - 1).
RECURSIVE find_hashes_inner_bs_short(_, _, _, _, _)
find_hashes_inner_bs_short(db, hs, lower_bound, upper_bound, acc) ==
    IF lower_bound >= upper_bound
    THEN [acc EXCEPT !.missing = @ \cup Range(hs)]
    ELSE IF Len(hs) = 1
    THEN LET r == find_hash_inner(db, hs[1], lower_bound, upper_bound)
         IN  IF r = None
             THEN [acc EXCEPT !.missing = @ \cup {hs[1]}]
             ELSE [acc EXCEPT !.so_far = Append(@, r)]
    ELSE LET mid == (upper_bound + lower_bound) \div 2
             row == read_row(db, mid)
             below == SelectSeq(hs, LAMBDA h : row[1] # h /\ row[1] > h)
             above == SelectSeq(hs, LAMBDA h : row[1] # h /\ ~(row[1] > h))
             acc1 == [acc EXCEPT !.so_far = @ \o EqualRows(row, hs)]
             acc2 == IF Len(below) > 0
                     THEN find_hashes_inner_bs_short(db, below, lower_bound, mid - 1, acc1)
                     ELSE acc1
         IN  IF Len(above) = 0 THEN acc2
             ELSE find_hashes_inner_bs_short(db, above, mid + 1, upper_bound, acc2)

\* _find_hashes_inner_bs: acc is the pair of accumulators the source passes
\* by reference, [so_far: list of rows, missing: set of hashes].
RECURSIVE find_hashes_inner_bs(_, _, _, _, _)
find_hashes_inner_bs(db, hs, lower_bound, upper_bound, acc) ==
    IF lower_bound >= upper_bound
    THEN [acc EXCEPT !.missing = @ \cup Range(hs)]
    ELSE IF Len(hs) = 1
    THEN LET r == find_hash_inner(db, hs[1], lower_bound, upper_bound)
         IN  IF r = None
             THEN [acc EXCEPT !.missing = @ \cup {hs[1]}]
             ELSE [acc EXCEPT !.so_far = Append(@, r)]
    ELSE LET mid == (upper_bound + lower_bound) \div 2
             row == read_row(db, mid)
             below == SelectSeq(hs, LAMBDA h : row[1] # h /\ row[1] > h)
             above == SelectSeq(hs, LAMBDA h : row[1] # h /\ ~(row[1] > h))
             acc1 == [acc EXCEPT !.so_far = @ \o EqualRows(row, hs)]
             acc2 == IF Len(below) > 0
                     THEN find_hashes_inner_bs(db, below, lower_bound, mid, acc1)
                     ELSE acc1
         IN  IF Len(above) = 0 THEN acc2
             ELSE find_hashes_inner_bs(db, above, mid + 1, upper_bound, acc2)

\* find_hashes(self, hs): the module-level function, on one file.
find_hashes(db, hs) ==
    find_hashes_inner_bs(db, hs, 0, db.row_count, [so_far |-> <<>>, missing |-> {}])

\* The windows [lower_bound, upper_bound) that the searches go on with after
\* reading row mid: "upper_bound = mid" and the recursive call on
\* (lower_bound, mid); "lower_bound = mid + 1".
WindowBelow(lower_bound, mid) == <<lower_bound, mid>>

\* WindowAbove that keeps row mid in the window.
WindowAbove_keepmid(mid, upper_bound) == <<mid, upper_bound>>

WindowAbove(mid, upper_bound) == <<mid + 1, upper_bound>>

NoTrace == [reads |-> {}, steps |-> {}]

\* The trace of a search that goes on from the window `from` with the window
\* `to`, rest being the trace of the search on `to`.
TraceStep(mid, from, to, rest) ==
    [reads |-> {mid} \cup rest.reads,
     steps |-> {[from |-> from, to |-> to]} \cup rest.steps]

\* _find_hash_inner, traced: the ordinals it passes to read_row and the
\* pairs of windows of consecutive loop iterations.  A window that is not
\* smaller than the one before is recorded and not searched: the loop of
\* the source would not end.
RECURSIVE find_hash_inner_trace(_, _, _, _)
find_hash_inner_trace(db, h, lower_bound, upper_bound) ==
    IF lower_bound >= upper_bound THEN NoTrace
    ELSE LET mid == (upper_bound + lower_bound) \div 2
             row == read_row(db, mid)
             to == IF row[1] < h THEN WindowAbove(mid, upper_bound)
                   ELSE WindowBelow(lower_bound, mid)
         IN  IF row = None \/ row[1] = h THEN [reads |-> {mid}, steps |-> {}]
             ELSE TraceStep(mid, <<lower_bound, upper_bound>>, to,
                            IF to[2] - to[1] < upper_bound - lower_bound
                            THEN find_hash_inner_trace(db, h, to[1], to[2])
                            ELSE NoTrace)

\* _find_hashes_inner_bs, traced in the same way: the ordinals read and the
\* pairs of windows of a call and the recursive call it makes, and of
\* consecutive loop iterations.
RECURSIVE find_hashes_inner_bs_trace(_, _, _, _)
find_hashes_inner_bs_trace(db, hs, lower_bound, upper_bound) ==
    IF lower_bound >= upper_bound THEN NoTrace
    ELSE IF Len(hs) = 1 THEN find_hash_inner_trace(db, hs[1], lower_bound, upper_bound)
    ELSE LET mid == (upper_bound + lower_bound) \div 2
             row == read_row(db, mid)
             from == <<lower_bound, upper_bound>>
             smaller(to) == to[2] - to[1] < upper_bound - lower_bound
         IN  IF row = None THEN [reads |-> {mid}, steps |-> {}]
             ELSE LET below == SelectSeq(hs, LAMBDA h : row[1] # h /\ row[1] > h)
                      above == SelectSeq(hs, LAMBDA h : row[1] # h /\ ~(row[1] > h))
                      lo == WindowBelow(lower_bound, mid)
                      hi == WindowAbove(mid, upper_bound)
                      t1 == IF Len(below) > 0
                            THEN TraceStep(mid, from, lo,
                                           IF smaller(lo)
                                           THEN find_hashes_inner_bs_trace(db, below, lo[1], lo[2])
                                           ELSE NoTrace)
                            ELSE [reads |-> {mid}, steps |-> {}]
                      t2 == IF Len(above) = 0 THEN NoTrace
                            ELSE TraceStep(mid, from, hi,
                                           IF smaller(hi)
                                           THEN find_hashes_inner_bs_trace(db, above, hi[1], hi[2])
                                           ELSE NoTrace)
                  IN  [reads |-> t1.reads \cup t2.reads, steps |-> t1.steps \cup t2.steps]

\* find_hashes whose search starts on [0, row_count].
find_hashes_trace_closed(db, hs) ==
    find_hashes_inner_bs_trace(db, hs, 0, db.row_count + 1)

\* find_hashes(self, hs), traced: the search starts on [0, row_count).
find_hashes_trace(db, hs) ==
    find_hashes_inner_bs_trace(db, hs, 0, db.row_count)

----------------------------------------------------------------------------
(* cdb/hashdb/row_array_db.py: class RowArrayDB. *)

\* SortByHash with the sort left out.
SortByHash_unsorted(rows) == rows

\* rows.sort(key=lambda x: x[0]): Python's stable sort, here by insertion:
\* a row goes after every row already placed whose hash is not above its own.
RECURSIVE SortByHash(_)
SortByHash(rows) ==
    IF rows = <<>> THEN <<>>
    ELSE LET front == SortByHash(SubSeq(rows, 1, Len(rows) - 1))
             r == rows[Len(rows)]
             k == Cardinality({i \in DOMAIN front : front[i][1] <= r[1]})
         IN  SubSeq(front, 1, k) \o <<r>> \o SubSeq(front, k + 1, Len(front))

Paths(files) == {files[i].path : i \in DOMAIN files}

\* new_db_name: index counts up from 1 to the first name not in _db_files.
RECURSIVE NewDbNameFrom(_, _)
NewDbNameFrom(files, index) ==
    IF index \notin Paths(files) THEN index ELSE NewDbNameFrom(files, index + 1)

\* new_db_name that numbers the new file by the count of the files.
new_db_name_count(files) == Len(files) + 1

new_db_name(files) == NewDbNameFrom(files, 1)

\* sorted(items, key=row_count): the position in the stably sorted list of
\* the item at position i of the dict.
RankByRowCount(files, i) ==
    1 + Cardinality({j \in DOMAIN files :
            \/ files[j].row_count < files[i].row_count
            \/ (files[j].row_count = files[i].row_count /\ j < i)})

\* _select_db_files_to_merge that takes the first two files of the dict.
select_db_files_to_merge_first(files) ==
    IF Len(files) < MergeThreshold THEN <<>> ELSE <<1, 2>>

\* _select_db_files_to_merge: the positions in the dict of the files to merge,
\* smallest first; none below the threshold.
select_db_files_to_merge(files) ==
    IF Len(files) < MergeThreshold THEN <<>>
    ELSE [k \in 1..2 |-> CHOOSE i \in DOMAIN files : RankByRowCount(files, i) = k]

\* RemoveFiles that deletes only the first file of the list.
RemoveFiles_first(files, positions) ==
    SelectSeq(files, LAMBDA f : f.path # files[positions[1]].path)

\* del self._db_files[path] for each path of the list.
RemoveFiles(files, positions) ==
    SelectSeq(files, LAMBDA f : \A k \in DOMAIN positions : f.path # files[positions[k]].path)

\* merge that merges nothing.
merge_none(files) == files

\* merge that puts the merged file in front of the files it leaves.
merge_front(files) ==
    LET path_db_list == select_db_files_to_merge(files)
    IN  IF path_db_list = <<>> THEN files
        ELSE LET merged_db_path == new_db_name(files)
                 db_list == [k \in DOMAIN path_db_list |-> files[path_db_list[k]]]
                 merged_db == create_with_rows(merged_db_path, sorted_merged_rows(db_list))
             IN  <<merged_db>> \o RemoveFiles(files, path_db_list)

\* The dict that merge() leaves.
merge(files) ==
    LET path_db_list == select_db_files_to_merge(files)
    IN  IF path_db_list = <<>> THEN files
        ELSE LET merged_db_path == new_db_name(files)
                 db_list == [k \in DOMAIN path_db_list |-> files[path_db_list[k]]]
                 merged_db == create_with_rows(merged_db_path, sorted_merged_rows(db_list))
             IN  Append(RemoveFiles(files, path_db_list), merged_db)

\* merge()'s closing loop: assert actual_count == _.row_count() for every file.
MergeCountsOk(files) ==
    \A i \in DOMAIN files : requery_count(files[i]) = files[i].row_count

\* AddedRowCount that counts the file, not its rows.
AddedRowCount_one(count, rows) == count + 1

\* self._row_count += len(rows)
AddedRowCount(count, rows) == count + Len(rows)

\* add_rows up to the call of merge(): the dict with the new file in it.
InsertNewFile(files, rows) ==
    Append(files, create_with_rows(new_db_name(files), SortByHash(rows)))

\* add_rows: the forest it leaves, [db_files, row_count, pre_merge, ok].
add_rows(files, count, rows) ==
    LET inserted == InsertNewFile(files, rows)
        merged == merge(inserted)
        new_count == AddedRowCount(count, rows)
    IN  [db_files |-> merged,
         row_count |-> new_count,
         pre_merge |-> inserted,
         ok |-> /\ (Len(inserted) >= MergeThreshold => MergeCountsOk(merged))
                /\ new_count = SumSeq([i \in DOMAIN merged |-> merged[i].row_count])]

\* acc.update(found): later rows override earlier ones with the same hash.
RECURSIVE DictUpdate(_, _)
DictUpdate(d, pairs) ==
    IF pairs = <<>> THEN d
    ELSE LET p == Head(pairs)
             d1 == [k \in DOMAIN d \cup {p[1]} |-> IF k = p[1] THEN p[2] ELSE d[k]]
         IN  DictUpdate(d1, Tail(pairs))

EmptyDict == [k \in {} |-> 0]

\* The "for db in self._db_files.values()" loop of RowArrayDB.find_hashes from
\* file i on: [acc, pending].  `ord` is the order in which list(missing)
\* lists a set.
RECURSIVE FindLoop(_, _, _, _, _)
FindLoop(files, i, acc, pending, ord) ==
    IF i > Len(files) \/ Len(pending) = 0 THEN [acc |-> acc, pending |-> pending]
    ELSE LET got == find_hashes(files[i], pending)
         IN  FindLoop(files, i + 1, DictUpdate(acc, got.so_far),
                      SetToList(got.missing, ord), ord)

\* forest_find_hashes without the failure on a hash in no file: the rows of
\* the hashes found.
forest_find_hashes_found(files, hs, ord) ==
    LET end == FindLoop(files, 1, EmptyDict, hs, ord)
        found == SelectSeq(hs, LAMBDA h : h \in DOMAIN end.acc)
    IN  [status |-> "ok", rows |-> [i \in DOMAIN found |-> <<found[i], end.acc[found[i]]>>]]

\* RowArrayDB.find_hashes: [(h, acc[h]) for h in hs]; when a hash is in no
\* file the call stops at breakpoint() and acc[h] raises KeyError.
forest_find_hashes(files, hs, ord) ==
    LET end == FindLoop(files, 1, EmptyDict, hs, ord)
    IN  IF Len(end.pending) > 0 \/ \E i \in DOMAIN hs : hs[i] \notin DOMAIN end.acc
        THEN [status |-> "breakpoint", rows |-> <<>>]
        ELSE [status |-> "ok", rows |-> [i \in DOMAIN hs |-> <<hs[i], end.acc[hs[i]]>>]]

----------------------------------------------------------------------------
(* cdb/schemas/hash_db_schema.py: the coinbase codec.  Here a name is the   *)
(* sequence of its 32 bytes.                                                *)

COINBASE_PREFIXES ==
    << <<63, 240, 126, 179, 88, 232, 37, 90, 101, 195, 10, 45, 206, 14, 95, 187>>,
       <<204, 213, 187, 113, 24, 53, 50, 191, 242, 32, 186, 70, 194, 104, 153, 26>> >>

\* int.from_bytes(b, "big")
RECURSIVE IntFromFirst(_, _)
IntFromFirst(b, n) == IF n = 0 THEN 0 ELSE IntFromFirst(b, n - 1) * 256 + b[n]

int_from_bytes(b) == IntFromFirst(b, Len(b))

\* v.to_bytes(n, "big") for 0 <= v < 256^n.
RECURSIVE int_to_bytes(_, _)
int_to_bytes(v, n) ==
    IF n = 0 THEN <<>>
    ELSE Bind(v, LAMBDA x : Append(int_to_bytes(x \div 256, n - 1), x % 256))

\* a | b on naturals.
RECURSIVE BitOr(_, _)
BitOr(a, b) ==
    IF a = 0 THEN b
    ELSE IF b = 0 THEN a
    ELSE Bind(<<a, b>>, LAMBDA x :
             2 * BitOr(x[1] \div 2, x[2] \div 2)
                 + (IF x[1] % 2 = 1 \/ x[2] % 2 = 1 THEN 1 ELSE 0))

\* coin_name[16:24] is all zero.
is_coinbase_name(coin_name) == \A i \in 17..24 : coin_name[i] = 0

\* COINBASE_PREFIX_LOOKUP.get(prefix): the 0-based position of prefix in
\* COINBASE_PREFIXES as <<position>>, or None.
PrefixLookup(prefix) ==
    IF \E i \in DOMAIN COINBASE_PREFIXES : COINBASE_PREFIXES[i] = prefix
    THEN <<(CHOOSE i \in DOMAIN COINBASE_PREFIXES : COINBASE_PREFIXES[i] = prefix) - 1>>
    ELSE None

\* as_coinbase_index with the prefix index left out of the value.
as_coinbase_index_noprefix(coin_name) ==
    IF is_coinbase_name(coin_name)
    THEN LET prefix_index == PrefixLookup(SubSeq(coin_name, 1, 16))
         IN  IF prefix_index = None THEN None
             ELSE <<-(int_from_bytes(SubSeq(coin_name, 17, 32)) * 256)>>
    ELSE None

\* as_coinbase_index: <<v>> for the int v returned, or None.
as_coinbase_index(coin_name) ==
    IF is_coinbase_name(coin_name)
    THEN LET prefix_index == PrefixLookup(SubSeq(coin_name, 1, 16))
         IN  IF prefix_index = None THEN None
             ELSE <<-BitOr(int_from_bytes(SubSeq(coin_name, 17, 32)) * 256,
                           prefix_index[1])>>
    ELSE None

\* bytes32_for_negative_coin_index with the shift by 8 left out.
bytes32_for_negative_coin_index_noshift(coin_index) ==
    LET u == -coin_index
        prefix_index == u % 256
    IN  IF prefix_index + 1 \notin DOMAIN COINBASE_PREFIXES \/ u < 0
        THEN "error"
        ELSE COINBASE_PREFIXES[prefix_index + 1] \o int_to_bytes(u, 16)

\* bytes32_for_negative_coin_index: the name, or "error" where the source
\* raises (IndexError of COINBASE_PREFIXES[prefix_index], OverflowError of
\* to_bytes on a negative v).
bytes32_for_negative_coin_index(coin_index) ==
    LET u == -coin_index
        prefix_index == u % 256
        v == u \div 256
    IN  IF prefix_index + 1 \notin DOMAIN COINBASE_PREFIXES \/ v < 0
        THEN "error"
        ELSE COINBASE_PREFIXES[prefix_index + 1] \o int_to_bytes(v, 16)

(* The codec on its own: names and indices drawn from bounded sets. *)

\* Sixteen bytes that are no coinbase prefix: the first prefix with its last
\* byte changed, and sixteen zero bytes.
OtherPrefixes ==
    { [COINBASE_PREFIXES[1] EXCEPT ![16] = 188], [i \in 1..16 |-> 0] }

Zeros(n) == [i \in 1..n |-> 0]

\* Bytes 16..24 of the names drawn: all zero, or with one byte set.
Windows == { Zeros(8), [Zeros(8) EXCEPT ![1] = 1], [Zeros(8) EXCEPT ![8] = 1] }

\* Bytes 24..32 of the names drawn: the last two bytes vary.
ByteValues == {0, 1, 255}
Tails == { Zeros(6) \o <<a, b>> : a \in ByteValues, b \in ByteValues }

CodecNames ==
    { p \o w \o t : p \in Range(COINBASE_PREFIXES) \cup OtherPrefixes, w \in Windows, t \in Tails }

CodecIndices == (0 - MaxIndex)..1

CodecInit == codec = [op |-> "none"]

NoDump == [called |-> FALSE, status |-> "ok", out |-> <<>>]

NoFlush == [called |-> FALSE, pending |-> <<>>, files |-> <<>>,
            committed |-> [coin |-> <<>>, block |-> <<>>], asked |-> <<>>]

\* A fresh store: __init__ over an empty directory.
PipeInit ==
    /\ pending_blocks = <<>>
    /\ pending_coin_count = 0
    /\ coin_table = <<>>
    /\ block_table = <<>>
    /\ sql_seq = 0
    /\ committed = [coin |-> <<>>, block |-> <<>>]
    /\ status = "ok"
    /\ last_op = "none"
    /\ flush_calls = 0
    /\ stream = <<>>
    /\ store_log = <<>>
    /\ dump_out = NoDump
    /\ last_flush = NoFlush

\* as_coinbase_index(name), and the name that its result decodes to.
EncodeName ==
    /\ \E name \in CodecNames :
           LET v == as_coinbase_index(name)
           IN  codec' = [op |-> "encode", name |-> name, index |-> v,
                         back |-> IF v = None THEN None
                                  ELSE bytes32_for_negative_coin_index(v[1])]
    /\ UNCHANGED <<forestVars, merge_run, pipeVars>>

\* bytes32_for_negative_coin_index(v), and the index that its result encodes to.
DecodeIndex ==
    /\ \E v \in CodecIndices :
           LET name == bytes32_for_negative_coin_index(v)
           IN  codec' = [op |-> "decode", v |-> v, name |-> name,
                         back |-> IF name = "error" THEN None ELSE as_coinbase_index(name)]
    /\ UNCHANGED <<forestVars, merge_run, pipeVars>>

CodecNext == EncodeName \/ DecodeIndex

----------------------------------------------------------------------------
(* cdb/schema.py and cdb/schemas/hash_db_schema.py: names, coins, blocks.   *)
(* In the pipeline a name is the position of its 32 bytes in NameTable,     *)
(* which lists the names in use in the lexicographic order of their bytes:  *)
(* the forest orders the positions as Python orders the bytes.              *)

Fill(k) == [i \in 1..32 |-> k]

NameTable ==
    << Fill(17),                                            \* 1
       Fill(34),                                            \* 2
       COINBASE_PREFIXES[1] \o Zeros(16),                   \* 3: coinbase, index 0
       [COINBASE_PREFIXES[1] EXCEPT ![16] = 188] \o Zeros(16),  \* 4: zero window, no coinbase prefix
       Fill(128),                                           \* 5
       COINBASE_PREFIXES[2] \o Zeros(15) \o <<1>>,          \* 6: coinbase, index -257
       Fill(221),                                           \* 7
       Fill(238),                                           \* 8
       Fill(240),                                           \* 9
       Fill(250),                                           \* 10
       Fill(252) >>                                         \* 11

NameBytes(name) == NameTable[name]

\* is_coinbase_name and as_coinbase_index of each name of NameTable.
NameIsCoinbase == [n \in DOMAIN NameTable |-> is_coinbase_name(NameBytes(n))]
NameCoinbaseIndex == [n \in DOMAIN NameTable |-> as_coinbase_index(NameBytes(n))]

\* The coins of the streams drawn, each with the name that Coin.name()
\* (SHA-256 of its fields) gives it: distinct coins have distinct names.
CoinTable ==
    << [coin |-> [parent_coin_name |-> 3, puzzle_hash |-> 1, amount |-> 250], name |-> 5],
       [coin |-> [parent_coin_name |-> 5, puzzle_hash |-> 2, amount |-> 7], name |-> 2],
       [coin |-> [parent_coin_name |-> 6, puzzle_hash |-> 1, amount |-> 1], name |-> 7],
       [coin |-> [parent_coin_name |-> 8, puzzle_hash |-> 3, amount |-> 5], name |-> 1],
       [coin |-> [parent_coin_name |-> 10, puzzle_hash |-> 1, amount |-> 2], name |-> 9],
       [coin |-> [parent_coin_name |-> 9, puzzle_hash |-> 2, amount |-> 3], name |-> 10],
       [coin |-> [parent_coin_name |-> 3, puzzle_hash |-> 3, amount |-> 4], name |-> 4],
       [coin |-> [parent_coin_name |-> 4, puzzle_hash |-> 1, amount |-> 6], name |-> 11] >>

\* Coin.name()
CoinName(coin) == (CHOOSE e \in Range(CoinTable) : e.coin = coin).name

(* Python dicts, as the sequence of their <<key, value>> items in insertion order. *)

DictKeys(d) == {d[i][1] : i \in DOMAIN d}

\* d[k], for k in d.
DictGet(d, k) == d[CHOOSE i \in DOMAIN d : d[i][1] = k][2]

\* d[k] = v: a new key goes to the end, a key of d keeps its place.
DictSet(d, k, v) ==
    IF k \in DictKeys(d)
    THEN [i \in DOMAIN d |-> IF d[i][1] = k THEN <<k, v>> ELSE d[i]]
    ELSE Append(d, <<k, v>>)

\* d.update(items)
RECURSIVE DictUpdateItems(_, _)
DictUpdateItems(d, items) ==
    IF items = <<>> THEN d
    ELSE DictUpdateItems(DictSet(d, Head(items)[1], Head(items)[2]), Tail(items))

----------------------------------------------------------------------------
(* cdb/schema.py: topological_sort. *)

\* fetch_dependencies of _store_block: the confirm named by the parent, if any.
FetchDependencies(node, confirms) ==
    IF \E i \in DOMAIN confirms : CoinName(confirms[i]) = node.parent_coin_name
    THEN <<CHOOSE c \in Range(confirms) : CoinName(c) = node.parent_coin_name>>
    ELSE <<>>

\* visit(node) and the visits it makes; t is [result, visited, temp_marked, cycle].
RECURSIVE Visit(_, _, _)
RECURSIVE VisitAll(_, _, _)
VisitAll(nodes, t, confirms) ==
    IF nodes = <<>> \/ t.cycle THEN t
    ELSE Bind(Visit(Head(nodes), t, confirms), LAMBDA t1 : VisitAll(Tail(nodes), t1, confirms))

Visit(node, t, confirms) ==
    IF t.cycle THEN t
    ELSE IF node \in t.temp_marked THEN [t EXCEPT !.cycle = TRUE]
    ELSE IF node \notin t.visited
    THEN Bind(VisitAll(FetchDependencies(node, confirms),
                       [t EXCEPT !.temp_marked = @ \cup {node}], confirms),
              LAMBDA t2 :
                  IF t2.cycle THEN t2
                  ELSE [t2 EXCEPT !.temp_marked = @ \ {node},
                                  !.visited = @ \cup {node},
                                  !.result = Append(@, node)])
    ELSE t

\* The "for obj in objects" loop; objects in the order the set iterates.
RECURSIVE TopoLoop(_, _, _)
TopoLoop(objects, t, confirms) ==
    IF objects = <<>> \/ t.cycle THEN t
    ELSE Bind(IF Head(objects) \notin t.visited THEN Visit(Head(objects), t, confirms) ELSE t,
              LAMBDA t1 : TopoLoop(Tail(objects), t1, confirms))

\* topological_sort that returns the set as it iterates.
topological_sort_unsorted(set_order, confirms) == [result |-> set_order, cycle |-> FALSE]

\* topological_sort(set(confirms), ...): [result, cycle]; set_order is the
\* order in which the set iterates.
topological_sort(set_order, confirms) ==
    TopoLoop(set_order,
             [result |-> <<>>, visited |-> {}, temp_marked |-> {}, cycle |-> FALSE],
             confirms)

----------------------------------------------------------------------------
(* cdb/schemas/hash_db_schema.py: BaseDBSchema over the forest. *)

\* The tables that __init__ creates in hash_db_schema.db.
Tables == {"coin", "block"}

\* b"".join(x.to_bytes(8, "big") for x in items): to_bytes is unsigned and
\* raises OverflowError on a negative x.
RECURSIVE JoinBytes(_)
JoinBytes(items) ==
    IF items = <<>> THEN <<>> ELSE int_to_bytes(Head(items), 8) \o JoinBytes(Tail(items))

list_int_to_bytes(items) ==
    IF \E i \in DOMAIN items : items[i] < 0 THEN "OverflowError"
    ELSE JoinBytes(items)

list_int_from_bytes(data) ==
    [i \in 1..(Len(data) \div 8) |-> int_from_bytes(SubSeq(data, 8 * (i - 1) + 1, 8 * i))]

\* The order in which list(missing) lists the hashes of a forest query in
\* the pipeline.  The rows a query returns do not depend on it: each hash is
\* searched for in every file until found, whatever the hashes around it.
NameOrder == [i \in DOMAIN NameTable |-> i]

lookup_name_id_tuples_for_coin_names(coin_names, unflushed_coin_lookup) ==
    LET Known(n) == n \in DictKeys(unflushed_coin_lookup)
        known == SelectSeq(coin_names, Known)
    IN  [name_id_tuples |-> [i \in DOMAIN known |->
                                <<known[i], DictGet(unflushed_coin_lookup, known[i])>>],
         missing_coin_names |-> SelectSeq(coin_names, LAMBDA n : ~Known(n))]

\* _fetch_coin_indices_for_coin_names that gives a name found nowhere the
\* id 0 instead of raising.
fetch_coin_indices_for_coin_names_zero(coin_names, unflushed_coin_lookup, files) ==
    LET V(n) == IF NameIsCoinbase[n]
                THEN NameCoinbaseIndex[n]
                ELSE IF n \in DictKeys(unflushed_coin_lookup)
                     THEN <<DictGet(unflushed_coin_lookup, n)>>
                     ELSE None
        coin_names_remaining == SelectSeq(coin_names, LAMBDA n : V(n) = None)
        local == SelectSeq(coin_names, LAMBDA n : V(n) # None)
        zero == DictUpdateItems(<<>>, [i \in DOMAIN coin_names |-> <<coin_names[i], 0>>])
        d == DictUpdateItems(zero, [i \in DOMAIN local |-> <<local[i], V(local[i])[1]>>])
    IN  Bind(forest_find_hashes_found(files, coin_names_remaining, NameOrder), LAMBDA found :
            [status |-> "ok", d |-> DictUpdateItems(d, found.rows),
             asked |-> coin_names_remaining])

\* _fetch_coin_indices_for_coin_names: [status, d, asked], asked being the
\* names passed to RowArrayDB.find_hashes.  A name in no file of the forest
\* ends the call with the KeyError of RowArrayDB.find_hashes.
fetch_coin_indices_for_coin_names(coin_names, unflushed_coin_lookup, files) ==
    LET V(n) == IF NameIsCoinbase[n]
                THEN NameCoinbaseIndex[n]
                ELSE IF n \in DictKeys(unflushed_coin_lookup)
                     THEN <<DictGet(unflushed_coin_lookup, n)>>
                     ELSE None
        coin_names_remaining == SelectSeq(coin_names, LAMBDA n : V(n) = None)
        local == SelectSeq(coin_names, LAMBDA n : V(n) # None)
        d == DictUpdateItems(<<>>, [i \in DOMAIN local |-> <<local[i], V(local[i])[1]>>])
    IN  Bind(forest_find_hashes(files, coin_names_remaining, NameOrder), LAMBDA found :
            IF found.status # "ok"
            THEN [status |-> "KeyError", d |-> <<>>, asked |-> coin_names_remaining]
            ELSE [status |-> "ok", d |-> DictUpdateItems(d, found.rows),
                  asked |-> coin_names_remaining])

\* LastRowId with an id skipped.
LastRowId_gap(seq) == seq + 2

\* cursor.lastrowid of an INSERT into coin: the AUTOINCREMENT key, one more
\* than the largest id the table ever held.
LastRowId(seq) == seq + 1

\* The "for coin in sorted_confirms" loop of _store_block; st is the schema
\* state and l is [coin_ids_by_name, confirm_ids].
RECURSIVE InsertConfirms(_, _, _, _)
InsertConfirms(st, l, sorted_confirms, block_index) ==
    IF sorted_confirms = <<>> \/ st.status # "ok" THEN [st |-> st, l |-> l]
    ELSE LET coin == Head(sorted_confirms)
             pcn == coin.parent_coin_name
             cb == NameCoinbaseIndex[pcn]
             parent_index == IF cb # None THEN cb
                             ELSE IF pcn \in DictKeys(l.coin_ids_by_name)
                                  THEN <<DictGet(l.coin_ids_by_name, pcn)>>
                                  ELSE None
             coin_lookup_index == LastRowId(st.seq)
             row == [id |-> coin_lookup_index, parent |-> parent_index[1],
                     puzzle |-> coin.puzzle_hash, amount |-> int_to_bytes(coin.amount, 8),
                     confirmed |-> block_index, spent |-> 0]
         IN  IF parent_index = None
             THEN [st |-> [st EXCEPT !.status = "ValueError: can't find coin id"], l |-> l]
             ELSE Bind(<<[st EXCEPT !.coin = Append(@, row),
                                    !.seq = coin_lookup_index,
                                    !.unflushed = DictSet(@, CoinName(coin), coin_lookup_index)],
                         [coin_ids_by_name |-> DictSet(l.coin_ids_by_name, CoinName(coin),
                                                       coin_lookup_index),
                          confirm_ids |-> Append(l.confirm_ids, coin_lookup_index)]>>,
                       LAMBDA x : InsertConfirms(x[1], x[2], Tail(sorted_confirms), block_index))

\* _store_block from the spends on, the confirms inserted.
StoreSpends(st, block, confirm_ids, files) ==
    Bind(fetch_coin_indices_for_coin_names(block.spends, st.unflushed, files),
         LAMBDA spend_id_by_name :
    LET spend_ids == [i \in DOMAIN spend_id_by_name.d |-> spend_id_by_name.d[i][2]]
        updated == [i \in DOMAIN st.coin |->
                       IF st.coin[i].id \in Range(spend_ids)
                       THEN [st.coin[i] EXCEPT !.spent = block.index]
                       ELSE st.coin[i]]
        asked == st.asked \o spend_id_by_name.asked
    IN  IF spend_id_by_name.status # "ok"
        THEN [st EXCEPT !.status = spend_id_by_name.status, !.asked = asked]
        ELSE Bind(<<list_int_to_bytes(spend_ids), list_int_to_bytes(confirm_ids)>>,
                  LAMBDA blobs :
             IF blobs[1] = "OverflowError" \/ blobs[2] = "OverflowError"
             THEN [st EXCEPT !.coin = updated, !.asked = asked, !.status = "OverflowError"]
             ELSE [st EXCEPT !.coin = updated, !.asked = asked,
                             !.block = Append(@, [id |-> block.index,
                                                  timestamp |-> block.timestamp,
                                                  spends |-> blobs[1],
                                                  confirms |-> blobs[2]])]))

\* _store_block(block, unflushed_coin_lookup) on the schema state st =
\* [coin, block, seq, unflushed, log, asked, status]; set_order is the order in which
\* set(block.confirms) iterates.  log keeps, for each block whose confirms
\* were inserted, set_order, the coins in the order of their INSERTs and the
\* ids given.
store_block(st, block, set_order, files) ==
    LET parent_names == [i \in DOMAIN block.confirms |-> block.confirms[i].parent_coin_name]
        lk == lookup_name_id_tuples_for_coin_names(parent_names, st.unflushed)
    IN  Bind(fetch_coin_indices_for_coin_names(lk.missing_coin_names, st.unflushed, files),
             LAMBDA fetched :
        IF fetched.status # "ok"
        THEN [st EXCEPT !.status = fetched.status, !.asked = @ \o fetched.asked]
        ELSE Bind(topological_sort(set_order, block.confirms), LAMBDA sorted_confirms :
             IF sorted_confirms.cycle
             THEN [st EXCEPT !.status = "ValueError: Cycle detected",
                             !.asked = @ \o fetched.asked]
             ELSE Bind(InsertConfirms(
                           [st EXCEPT !.asked = @ \o fetched.asked],
                           [coin_ids_by_name |-> DictUpdateItems(fetched.d, lk.name_id_tuples),
                            confirm_ids |-> <<>>],
                           sorted_confirms.result, block.index),
                       LAMBDA ins :
                  IF ins.st.status # "ok" THEN ins.st
                  ELSE StoreSpends(
                           [ins.st EXCEPT !.log = Append(@, [block |-> block,
                                                             set_order |-> set_order,
                                                             inserted |-> sorted_confirms.result,
                                                             ids |-> ins.l.confirm_ids])],
                           block, ins.l.confirm_ids, files))))

\* The loop of flush taking the blocks from the last to the first.
RECURSIVE StoreBlocks_reversed(_, _, _)
StoreBlocks_reversed(st, pending, files) ==
    IF pending = <<>> \/ st.status # "ok" THEN st
    ELSE Bind(store_block(st, pending[Len(pending)].block, pending[Len(pending)].set_order,
                          files),
              LAMBDA st1 : StoreBlocks_reversed(st1, SubSeq(pending, 1, Len(pending) - 1), files))

\* The "for block in self._pending_blocks" loop of flush, up to the first
\* block that raises.
RECURSIVE StoreBlocks(_, _, _)
StoreBlocks(st, pending, files) ==
    IF pending = <<>> \/ st.status # "ok" THEN st
    ELSE Bind(store_block(st, Head(pending).block, Head(pending).set_order, files),
              LAMBDA st1 : StoreBlocks(st1, Tail(pending), files))

\* The rows of "SELECT id, hash FROM coin_lookup WHERE id IN (...)": no
\* statement creates a table coin_lookup, so the SELECT raises
\* sqlite3.OperationalError.
SelectCoinLookup(pos_coin_indices) ==
    IF "coin_lookup" \in Tables THEN [status |-> "ok", rows |-> <<>>]
    ELSE [status |-> "OperationalError", rows |-> <<>>]

\* _coin_names_for_coin_indices: [status, names], the names as bytes.
coin_names_for_coin_indices(coin_indices) ==
    LET neg == SelectSeq(coin_indices, LAMBDA v : v <= 0)
        pos_coin_indices == SelectSeq(coin_indices, LAMBDA v : v > 0)
        sel == SelectCoinLookup(pos_coin_indices)
        lookup == DictUpdateItems(
                      [i \in DOMAIN neg |-> <<neg[i], bytes32_for_negative_coin_index(neg[i])>>],
                      sel.rows)
    IN  IF \E i \in DOMAIN neg : bytes32_for_negative_coin_index(neg[i]) = "error"
        THEN [status |-> "IndexError", names |-> <<>>]
        ELSE IF sel.status # "ok" THEN [status |-> sel.status, names |-> <<>>]
        ELSE IF \E i \in DOMAIN coin_indices : coin_indices[i] \notin DictKeys(lookup)
        THEN [status |-> "KeyError", names |-> <<>>]
        ELSE [status |-> "ok",
              names |-> [i \in DOMAIN coin_indices |-> DictGet(lookup, coin_indices[i])]]

\* _coins_for_coin_indices: [status, coins], each coin as
\* [parent_coin_name (bytes), puzzle_hash, amount].
coins_for_coin_indices(coin_indices, coin) ==
    LET rows == SelectSeq(coin, LAMBDA r : r.id \in Range(coin_indices))
        parent_coin_names == coin_names_for_coin_indices([i \in DOMAIN rows |-> rows[i].parent])
        lookup == [i \in DOMAIN rows |->
                      <<rows[i].id, [parent_coin_name |-> parent_coin_names.names[i],
                                     puzzle_hash |-> rows[i].puzzle,
                                     amount |-> int_from_bytes(rows[i].amount)]>>]
    IN  IF parent_coin_names.status # "ok"
        THEN [status |-> parent_coin_names.status, coins |-> <<>>]
        ELSE IF \E i \in DOMAIN coin_indices : coin_indices[i] \notin DictKeys(lookup)
        THEN [status |-> "KeyError", coins |-> <<>>]
        ELSE [status |-> "ok",
              coins |-> [i \in DOMAIN coin_indices |-> DictGet(lookup, coin_indices[i])]]

\* a < b for bytes.
RECURSIVE BytesLess(_, _)
BytesLess(a, b) ==
    IF b = <<>> THEN FALSE
    ELSE IF a = <<>> THEN TRUE
    ELSE IF Head(a) # Head(b) THEN Head(a) < Head(b)
    ELSE BytesLess(Tail(a), Tail(b))

\* sorted(spends): stable, s[i] goes after the smaller elements and after
\* the earlier ones that are not larger.
SortedSpends(s) ==
    LET pos(i) == 1 + Cardinality({j \in DOMAIN s :
                           BytesLess(s[j], s[i]) \/ (~BytesLess(s[i], s[j]) /\ j < i)})
    IN  [k \in DOMAIN s |-> s[CHOOSE i \in DOMAIN s : pos(i) = k]]

\* The key of the confirms in print_block_replay.
ConfirmLess(c, d) ==
    \/ BytesLess(c.parent_coin_name, d.parent_coin_name)
    \/ /\ c.parent_coin_name = d.parent_coin_name
       /\ \/ c.puzzle_hash < d.puzzle_hash
          \/ c.puzzle_hash = d.puzzle_hash /\ c.amount < d.amount

\* sorted(confirms, key=...): stable.
SortedConfirms(s) ==
    LET pos(i) == 1 + Cardinality({j \in DOMAIN s :
                           ConfirmLess(s[j], s[i]) \/ (~ConfirmLess(s[i], s[j]) /\ j < i)})
    IN  [k \in DOMAIN s |-> s[CHOOSE i \in DOMAIN s : pos(i) = k]]

\* print_block_replay: the B line, the S lines and the C lines of a block.
print_block_replay(block_spend_info) ==
    [index |-> block_spend_info.index,
     timestamp |-> block_spend_info.timestamp,
     spend_count |-> Len(block_spend_info.spends),
     confirm_count |-> Len(block_spend_info.confirms),
     spends |-> SortedSpends(block_spend_info.spends),
     confirms |-> SortedConfirms(block_spend_info.confirms)]

\* dump_blocks over blocks(): [status, out], out the blocks printed before
\* the first row of block that raises.
RECURSIVE dump_blocks(_, _, _)
dump_blocks(block, coin, out) ==
    IF block = <<>> THEN [status |-> "ok", out |-> out]
    ELSE LET row == Head(block)
             spends == coin_names_for_coin_indices(list_int_from_bytes(row.spends))
             confirms == coins_for_coin_indices(list_int_from_bytes(row.confirms), coin)
         IN  IF spends.status # "ok" THEN [status |-> spends.status, out |-> out]
             ELSE IF confirms.status # "ok" THEN [status |-> confirms.status, out |-> out]
             ELSE dump_blocks(Tail(block), coin,
                              Append(out, print_block_replay(
                                  [index |-> row.id, timestamp |-> row.timestamp,
                                   spends |-> spends.names, confirms |-> confirms.coins])))

----------------------------------------------------------------------------
(* The forest on its own: add_rows and find_hashes called on a RowArrayDB   *)
(* built over an empty directory.  Rows get fresh ids, as they do in        *)
(* _flush_coin_lookup, and a batch holds no hash twice, as the items of a   *)
(* dict do not; a hash may come again in a later batch.                     *)

\* A hash that no call adds.
HashBase == MaxAdds + MaxHash + 1

\* The k-th hash of the calls that add one row: below HashBase for odd k,
\* above it for even k, further away as k grows.
FillerHash(k) == IF k % 2 = 0 THEN HashBase + k ELSE HashBase - k

\* The freely drawn batches take their hashes among the first filler hashes,
\* so that they can add a hash a second time.
SpecialHashes == {FillerHash(k) : k \in 1..MaxHash}

QueryHashes == SpecialHashes \cup {HashBase}

\* The freely drawn batches (of hashes) and the queries.
AllBatches == DistinctSeqs(SpecialHashes, MaxBatch)
AllQueries == SeqsUpTo(QueryHashes, MaxQuery)

NoAdd == [called |-> FALSE, batch |-> <<>>, count_before |-> 0,
          pre_merge |-> <<>>]

NoFind == [called |-> FALSE, hs |-> <<>>, status |-> "ok", rows |-> <<>>]

ForestInit ==
    /\ db_files = <<>>
    /\ row_count = 0
    /\ forest_ok = TRUE
    /\ add_calls = 0
    /\ added_rows = <<>>
    /\ batch_sizes = 0
    /\ last_add = NoAdd
    /\ find_out = NoFind
    /\ special_calls = 0

\* No add_rows call is being run step by step.
NoMerge == [pc |-> 0, crashed |-> FALSE, disk |-> <<>>, inputs |-> <<>>,
            merged_db_path |-> 0, rows |-> <<>>]

MergeInit == merge_run = NoMerge

Init == ForestInit /\ MergeInit /\ CodecInit /\ PipeInit

\* The rows of a batch of hashes: the ids follow those already given out.
WithFreshIds(hs) == [i \in DOMAIN hs |-> <<hs[i], Len(added_rows) + i>>]

\* RowArrayDB.add_rows(rows) and the history of the forest; r is what
\* add_rows(rows) makes of the forest.
ForestAddRows(rows, r) ==
    /\ forest_ok
    /\ add_calls < MaxAdds
    /\ db_files' = r.db_files
    /\ row_count' = r.row_count
    /\ forest_ok' = r.ok
    /\ add_calls' = add_calls + 1
    /\ added_rows' = added_rows \o rows
    /\ batch_sizes' = batch_sizes + Len(rows)
    /\ last_add' = [called |-> TRUE, batch |-> rows, count_before |-> row_count,
                    pre_merge |-> r.pre_merge]
    /\ find_out' = NoFind

DoAddRows(rows) ==
    /\ \E r \in {add_rows(db_files, row_count, rows)} : ForestAddRows(rows, r)
    /\ UNCHANGED <<merge_run, codec, pipeVars>>

\* add_rows with a freely drawn batch.
AddRows ==
    /\ special_calls < MaxSpecial
    /\ \E hs \in AllBatches : DoAddRows(WithFreshIds(hs))
    /\ special_calls' = special_calls + 1

\* The first filler hash not added yet.
FreshHash ==
    LET AddedHashSet == {added_rows[i][1] : i \in DOMAIN added_rows}
        k == CHOOSE k \in 1..(MaxAdds + MaxHash) :
                 /\ FillerHash(k) \notin AddedHashSet
                 /\ \A j \in 1..(k - 1) : FillerHash(j) \in AddedHashSet
    IN  FillerHash(k)

\* add_rows with one fresh row.
AddFreshRow ==
    /\ DoAddRows(WithFreshIds(<<FreshHash>>))
    /\ UNCHANGED special_calls

\* RowArrayDB.find_hashes(hs), asked once of each forest the calls of add_rows
\* leave (a second query would find the same forest).
FindHashes ==
    /\ forest_ok
    /\ ~find_out.called
    /\ \E hs \in AllQueries : \E ord \in Orders(Range(hs)) :
           LET r == forest_find_hashes(db_files, hs, ord)
           IN  find_out' = [called |-> TRUE, hs |-> hs, status |-> r.status, rows |-> r.rows]
    /\ UNCHANGED <<db_files, row_count, forest_ok, add_calls, added_rows, batch_sizes,
                   last_add, special_calls, merge_run, codec, pipeVars>>

\* The files of the search comparison: up to MaxFileRows rows, sorted
\* ascending by hash (a hash may repeat), the id of a row being its ordinal.
SortedFiles ==
    {create_with_rows(1, [i \in DOMAIN hashes |-> <<hashes[i], i>>]) :
         hashes \in {s \in SeqsUpTo(1..MaxSearchHash, MaxFileRows) :
                         \A i, j \in DOMAIN s : i < j => s[i] <= s[j]}}

\* The query lists of the search comparison: hashes of the files and one
\* hash below and one above them all.
SearchQueries == SeqsUpTo(0..(MaxSearchHash + 1), MaxSearchQuery)

\* Both search modes on one file: find_hashes(db, hs), the multi-key descent
\* over [0, row_count), and _find_hash_inner over the same range for each
\* hash of hs on its own.
SearchFile ==
    /\ ~find_out.called
    /\ \E db \in SortedFiles : \E hs \in SearchQueries :
           \E multi \in {find_hashes(db, hs)} :
               find_out' = [called |-> TRUE, hs |-> hs, status |-> "ok",
                            rows |-> multi.so_far,
                            missing |-> multi.missing,
                            db |-> db,
                            single |-> [i \in DOMAIN hs |->
                                           find_hash_inner(db, hs[i], 0, db.row_count)],
                            trace |-> find_hashes_trace(db, hs)]
    /\ UNCHANGED <<db_files, row_count, forest_ok, add_calls, added_rows, batch_sizes,
                   last_add, special_calls, merge_run, codec, pipeVars>>

SearchNext == SearchFile

SpecSearch == Init /\ [][SearchNext]_vars

ForestNext == AddRows \/ AddFreshRow

SpecForest == Init /\ [][ForestNext]_vars

\* The rows of all the files of a dict, file after file.
RECURSIVE AllRows(_)
AllRows(files) == IF files = <<>> THEN <<>> ELSE Head(files).rows \o AllRows(Tail(files))

(* RowArrayDB.merge, statement by statement, with the files on disk, and    *)
(* the death of the process between two statements.                         *)

\* merge that removes the two inputs before it writes the merged file.
MergeOrder_removefirst == <<"open", "remove", "remove", "write", "register">>

\* The statements of merge() after the selection, in the order of the
\* source: create_with_rows opens merged_db_path for writing and writes the
\* rows that sorted_merged_rows reads from the inputs; the loop removes and
\* unregisters the first input, then the second; the merged file is registered.
MergeOrder == <<"open", "write", "remove", "remove", "register">>

\* add_rows below the threshold, whole.
BuildAddRows ==
    /\ merge_run.pc = 0
    /\ Len(db_files) < MergeThreshold - 1
    /\ AddRows

BuildAddFreshRow ==
    /\ merge_run.pc = 0
    /\ Len(db_files) < MergeThreshold - 1
    /\ AddFreshRow

\* add_rows with one fresh row when the new file is the tenth, up to the
\* selection in merge(): the new file is written and registered, the count
\* raised, the two inputs and the name of the merged file chosen.
MergeSelect ==
    /\ merge_run.pc = 0
    /\ forest_ok
    /\ add_calls < MaxAdds
    /\ Len(db_files) = MergeThreshold - 1
    /\ \E rows \in {WithFreshIds(<<FreshHash>>)} :
       \E inserted \in {InsertNewFile(db_files, rows)} :
       \E path_db_list \in {select_db_files_to_merge(inserted)} :
           /\ db_files' = inserted
           /\ row_count' = AddedRowCount(row_count, rows)
           /\ add_calls' = add_calls + 1
           /\ added_rows' = added_rows \o rows
           /\ batch_sizes' = batch_sizes + Len(rows)
           /\ last_add' = [called |-> TRUE, batch |-> rows, count_before |-> row_count,
                           pre_merge |-> inserted]
           /\ merge_run' = [pc |-> 1, crashed |-> FALSE, disk |-> inserted,
                            inputs |-> [k \in DOMAIN path_db_list |->
                                           inserted[path_db_list[k]].path],
                            merged_db_path |-> new_db_name(inserted),
                            rows |-> AllRows(inserted)]
    /\ find_out' = NoFind
    /\ UNCHANGED <<forest_ok, special_calls, codec, pipeVars>>

\* The files of the inputs as they are on disk now, in the order selected.
InputsOnDisk ==
    [k \in DOMAIN merge_run.inputs |->
        IF merge_run.inputs[k] \in Paths(merge_run.disk)
        THEN CHOOSE f \in Range(merge_run.disk) : f.path = merge_run.inputs[k]
        ELSE create_with_rows(merge_run.inputs[k], <<>>)]

\* The next statement of merge().
MergeStep ==
    /\ merge_run.pc \in DOMAIN MergeOrder
    /\ ~merge_run.crashed
    /\ \E op \in {MergeOrder[merge_run.pc]} :
       \E others \in {SelectSeq(merge_run.disk,
                                 LAMBDA f : f.path # merge_run.merged_db_path)} :
       \E registered \in {SelectSeq(merge_run.inputs,
                                     LAMBDA q : q \in Paths(db_files))} :
           /\ merge_run' =
                  [merge_run EXCEPT
                      !.pc = IF merge_run.pc = Len(MergeOrder) THEN 0 ELSE merge_run.pc + 1,
                      !.disk =
                          IF op = "open"
                          THEN Append(others, create_with_rows(merge_run.merged_db_path, <<>>))
                          ELSE IF op = "write"
                          THEN Append(others,
                                      create_with_rows(merge_run.merged_db_path,
                                                       sorted_merged_rows(InputsOnDisk)))
                          ELSE IF op = "remove"
                          THEN SelectSeq(merge_run.disk, LAMBDA f : f.path # registered[1])
                          ELSE merge_run.disk]
           /\ db_files' =
                  IF op = "remove"
                  THEN SelectSeq(db_files, LAMBDA f : f.path # registered[1])
                  ELSE IF op = "register"
                  THEN Append(db_files,
                              CHOOSE f \in Range(merge_run.disk) :
                                  f.path = merge_run.merged_db_path)
                  ELSE db_files
    /\ UNCHANGED <<row_count, forest_ok, add_calls, added_rows, batch_sizes, last_add,
                   find_out, special_calls, codec, pipeVars>>

\* The process dies between two statements of merge(): the files on disk
\* stay as they are.
MergeCrash ==
    /\ merge_run.pc \in DOMAIN MergeOrder
    /\ ~merge_run.crashed
    /\ merge_run' = [merge_run EXCEPT !.crashed = TRUE]
    /\ UNCHANGED <<forestVars, codec, pipeVars>>

MergeNext == BuildAddRows \/ BuildAddFreshRow \/ MergeSelect \/ MergeStep \/ MergeCrash

SpecMerge == Init /\ [][MergeNext]_vars

SpecCodec == Init /\ [][CodecNext]_vars

FindNext == AddRows \/ AddFreshRow \/ FindHashes

SpecFind == Init /\ [][FindNext]_vars

----------------------------------------------------------------------------
(* The pipeline: accept_block, flush and dump_blocks on a fresh store.  The  *)
(* cache size stands for the 50000 of the code, scaled to the streams drawn. *)

MaxBlocks == 2
MaxConfirms == 2
MaxSpends == 1
MaxFlushes == 2
cache_size == 2

\* The coins and the spend names of the streams drawn: a coin of a coinbase
\* parent, its child and a coin of the second coinbase prefix; the name of
\* the first, the coinbase name of index 0 and a name no coin has.
PipeCoins == {CoinTable[i].coin : i \in 1..3}
PipeSpends == {CoinTable[1].name, 3, 8}

\* The blocks drawn, without index and timestamp, each with an order in
\* which the set of its confirms may iterate.
BlockBodies ==
    UNION {{[spends |-> sp, confirms |-> cf, set_order |-> ord] :
                sp \in SeqsUpTo(PipeSpends, MaxSpends), ord \in Orders(Range(cf))} :
           cf \in SeqsUpTo(PipeCoins, MaxConfirms)}

\* flush that leaves the buffer and the counter as they are.
DoFlush_noreset(pending, count) ==
    \E st \in {StoreBlocks([coin |-> coin_table, block |-> block_table, seq |-> sql_seq,
                             unflushed |-> <<>>, log |-> store_log, asked |-> <<>>,
                             status |-> "ok"],
                            pending, db_files)} :
    \E added \in {add_rows(db_files, row_count, st.unflushed)} :
        /\ last_flush' = [called |-> TRUE, pending |-> pending, files |-> db_files,
                          committed |-> committed, asked |-> st.asked]
        /\ coin_table' = st.coin
        /\ block_table' = st.block
        /\ sql_seq' = st.seq
        /\ store_log' = st.log
        /\ IF st.status = "ok"
           THEN /\ ForestAddRows(st.unflushed, added)
                /\ UNCHANGED special_calls
                /\ IF added.ok
                   THEN /\ pending_blocks' = pending
                        /\ pending_coin_count' = count
                        /\ committed' = [coin |-> st.coin, block |-> st.block]
                        /\ status' = "ok"
                   ELSE /\ pending_blocks' = pending
                        /\ pending_coin_count' = count
                        /\ UNCHANGED committed
                        /\ status' = "AssertionError"
           ELSE /\ UNCHANGED forestVars
                /\ pending_blocks' = pending
                /\ pending_coin_count' = count
                /\ UNCHANGED committed
                /\ status' = st.status

\* flush() with self._pending_blocks = pending; count is what
\* _pending_coin_count keeps when a block raises.  st is the schema state
\* that the blocks leave and `added` what add_rows makes of the forest.
DoFlush(pending, count) ==
    \E st \in {StoreBlocks([coin |-> coin_table, block |-> block_table, seq |-> sql_seq,
                             unflushed |-> <<>>, log |-> store_log, asked |-> <<>>,
                             status |-> "ok"],
                            pending, db_files)} :
    \E added \in {add_rows(db_files, row_count, st.unflushed)} :
        /\ last_flush' = [called |-> TRUE, pending |-> pending, files |-> db_files,
                          committed |-> committed, asked |-> st.asked]
        /\ coin_table' = st.coin
        /\ block_table' = st.block
        /\ sql_seq' = st.seq
        /\ store_log' = st.log
        /\ IF st.status = "ok"
           THEN /\ ForestAddRows(st.unflushed, added)
                /\ UNCHANGED special_calls
                /\ IF added.ok
                   THEN /\ pending_blocks' = <<>>
                        /\ pending_coin_count' = 0
                        /\ committed' = [coin |-> st.coin, block |-> st.block]
                        /\ status' = "ok"
                   ELSE /\ pending_blocks' = pending
                        /\ pending_coin_count' = count
                        /\ UNCHANGED committed
                        /\ status' = "AssertionError"
           ELSE /\ UNCHANGED forestVars
                /\ pending_blocks' = pending
                /\ pending_coin_count' = count
                /\ UNCHANGED committed
                /\ status' = st.status

\* accept_block that counts the block, not its confirms.
AcceptFrom_blockcount(Bodies) ==
    /\ status = "ok"
    /\ last_op # "dump"
    /\ Len(stream) < MaxBlocks
    /\ \E body \in Bodies :
           \E block \in {[index |-> Len(stream) + 1, timestamp |-> 1000 + Len(stream),
                           spends |-> body.spends, confirms |-> body.confirms]} :
           \E pending \in {Append(pending_blocks,
                                   [block |-> block, set_order |-> body.set_order])} :
           \E count \in {pending_coin_count + 1} :
               /\ stream' = Append(stream, block)
               /\ IF count > cache_size
                  THEN DoFlush(pending, count)
                  ELSE /\ pending_blocks' = pending
                       /\ pending_coin_count' = count
                       /\ UNCHANGED <<forestVars, coin_table, block_table, sql_seq,
                                      committed, status, store_log, last_flush>>
    /\ last_op' = "accept"
    /\ UNCHANGED <<merge_run, codec, flush_calls, dump_out>>

\* accept_block that flushes as soon as the count reaches cache_size.
AcceptFrom_ge(Bodies) ==
    /\ status = "ok"
    /\ last_op # "dump"
    /\ Len(stream) < MaxBlocks
    /\ \E body \in Bodies :
           \E block \in {[index |-> Len(stream) + 1, timestamp |-> 1000 + Len(stream),
                           spends |-> body.spends, confirms |-> body.confirms]} :
           \E pending \in {Append(pending_blocks,
                                   [block |-> block, set_order |-> body.set_order])} :
           \E count \in {pending_coin_count + Len(block.confirms)} :
               /\ stream' = Append(stream, block)
               /\ IF count >= cache_size
                  THEN DoFlush(pending, count)
                  ELSE /\ pending_blocks' = pending
                       /\ pending_coin_count' = count
                       /\ UNCHANGED <<forestVars, coin_table, block_table, sql_seq,
                                      committed, status, store_log, last_flush>>
    /\ last_op' = "accept"
    /\ UNCHANGED <<merge_run, codec, flush_calls, dump_out>>

\* accept_block(block), the flush it may run included, for a block drawn
\* from Bodies.
AcceptFrom(Bodies) ==
    /\ status = "ok"
    /\ last_op # "dump"
    /\ Len(stream) < MaxBlocks
    /\ \E body \in Bodies :
           \E block \in {[index |-> Len(stream) + 1, timestamp |-> 1000 + Len(stream),
                           spends |-> body.spends, confirms |-> body.confirms]} :
           \E pending \in {Append(pending_blocks,
                                   [block |-> block, set_order |-> body.set_order])} :
           \E count \in {pending_coin_count + Len(block.confirms)} :
               /\ stream' = Append(stream, block)
               /\ IF count > cache_size
                  THEN DoFlush(pending, count)
                  ELSE /\ pending_blocks' = pending
                       /\ pending_coin_count' = count
                       /\ UNCHANGED <<forestVars, coin_table, block_table, sql_seq,
                                      committed, status, store_log, last_flush>>
    /\ last_op' = "accept"
    /\ UNCHANGED <<merge_run, codec, flush_calls, dump_out>>

AcceptBlock == AcceptFrom(BlockBodies)

\* flush(), as load_blocks calls it at the end of its stream.
Flush ==
    /\ status = "ok"
    /\ last_op # "dump"
    /\ flush_calls < MaxFlushes
    /\ DoFlush(pending_blocks, pending_coin_count)
    /\ last_op' = "flush"
    /\ flush_calls' = flush_calls + 1
    /\ UNCHANGED <<merge_run, codec, stream, dump_out>>

\* dump_blocks in a process of its own, over what a load has committed.
Dump ==
    /\ status = "ok"
    /\ last_op = "flush"
    /\ \E r \in {dump_blocks(committed.block, committed.coin, <<>>)} :
           dump_out' = [called |-> TRUE, status |-> r.status, out |-> r.out]
    /\ last_op' = "dump"
    /\ UNCHANGED <<forestVars, merge_run, codec, pending_blocks, pending_coin_count, coin_table,
                   block_table, sql_seq, committed, status, flush_calls, stream, store_log,
                   last_flush>>

PipeNext == AcceptBlock \/ Flush \/ Dump

SpecPipe == Init /\ [][PipeNext]_vars

(* Streams whose blocks confirm coins that name each other as parent. *)

\* A coin of a coinbase parent and two coins each of which has the name of
\* the other as its parent name.
IntraCoins == {CoinTable[1].coin, CoinTable[5].coin, CoinTable[6].coin}

IntraBodies ==
    UNION {{[spends |-> <<>>, confirms |-> cf, set_order |-> ord] : ord \in Orders(Range(cf))} :
           cf \in SeqsUpTo(IntraCoins, MaxConfirms)}

AcceptIntra == AcceptFrom(IntraBodies)

IntraNext == AcceptIntra \/ Flush

SpecIntra == Init /\ [][IntraNext]_vars

(* Streams with a coin whose name has zero bytes 16..24 and no coinbase     *)
(* prefix.                                                                  *)

\* The coin of that name, a child of it, and the name as a spend.
ZeroCoins == {CoinTable[7].coin, CoinTable[8].coin}
ZeroSpends == {CoinTable[7].name}

ZeroBodies ==
    UNION {{[spends |-> sp, confirms |-> cf, set_order |-> ord] :
                sp \in SeqsUpTo(ZeroSpends, MaxSpends), ord \in Orders(Range(cf))} :
           cf \in SeqsUpTo(ZeroCoins, MaxConfirms)}

AcceptZero == AcceptFrom(ZeroBodies)

ZeroNext == AcceptZero \/ Flush

SpecZero == Init /\ [][ZeroNext]_vars

(* Streams whose blocks spend coinbase names.                               *)

\* A coin, a coin with a coinbase parent of negative index, and as spends the
\* coinbase names of index 0 and of index -257.
CoinbaseCoins == {CoinTable[1].coin, CoinTable[3].coin}
CoinbaseSpends == {3, 6}

CoinbaseBodies ==
    UNION {{[spends |-> sp, confirms |-> cf, set_order |-> ord] :
                sp \in SeqsUpTo(CoinbaseSpends, MaxSpends), ord \in Orders(Range(cf))} :
           cf \in SeqsUpTo(CoinbaseCoins, MaxConfirms)}

AcceptCoinbase == AcceptFrom(CoinbaseBodies)

CoinbaseNext == AcceptCoinbase \/ Flush

SpecCoinbase == Init /\ [][CoinbaseNext]_vars

(* cdb/cmds/load_blocks.py: load_blocks over a stream that may hold a       *)
(* malformed line.                                                          *)

\* The exceptions of parse_blocks: a line that does not start a block where
\* one is expected, and a line of a block that is not the S or C line
\* expected.
ParseErrors == {"ValueError: Unexpected line", "AssertionError: parse_blocks"}

\* The loop of load_blocks takes the next block from parse_blocks and
\* passes it to accept_block.
LoadBlock ==
    /\ flush_calls = 0
    /\ AcceptBlock

\* parse_blocks raises at the next line; the exception leaves load_blocks
\* and ends the process.  No transaction is open between two accept_block
\* calls.
ParseError ==
    /\ status = "ok"
    /\ flush_calls = 0
    /\ last_op # "dump"
    /\ \E e \in ParseErrors : status' = e
    /\ last_op' = "parse"
    /\ UNCHANGED <<forestVars, merge_run, codec, pending_blocks, pending_coin_count, coin_table,
                   block_table, sql_seq, committed, flush_calls, stream, store_log,
                   dump_out, last_flush>>

\* The end of the stream: the schema.flush() that ends load_blocks.
EndOfStream ==
    /\ flush_calls = 0
    /\ Flush

LoadNext == LoadBlock \/ ParseError \/ EndOfStream

SpecLoad == Init /\ [][LoadNext]_vars

(* A process that dies inside flush(), and the next process over the same   *)
(* directory.                                                               *)

CrashCoins == {CoinTable[1].coin, CoinTable[2].coin}
CrashSpends == {CoinTable[1].name}

CrashBodies ==
    UNION {{[spends |-> sp, confirms |-> cf, set_order |-> ord] :
                sp \in SeqsUpTo(CrashSpends, MaxSpends), ord \in Orders(Range(cf))} :
           cf \in SeqsUpTo(CrashCoins, MaxConfirms)}

AcceptCrash == AcceptFrom(CrashBodies)

\* The places of flush() at which the process may die: in the loop over the
\* blocks, between _flush_coin_lookup and commit, and after commit.
CrashPoints == {"store", "add_rows", "commit"}

\* What the transaction of flush leaves in the database file when every
\* statement counts as soon as it has run.
Durable_autocommit(before, st, point) == [coin |-> st.coin, block |-> st.block]

\* What the transaction of flush (BEGIN TRANSACTION ... commit) leaves in
\* the database file when the process dies at `point`; before is what was
\* committed when flush began and st is the schema state reached.
Durable(before, st, point) ==
    IF point = "commit" THEN [coin |-> st.coin, block |-> st.block] ELSE before

\* flush() in which the process dies after k blocks were stored, or after
\* all were and add_rows has run, or after commit.
CrashFlush ==
    /\ status = "ok"
    /\ last_op # "dump"
    /\ flush_calls < MaxFlushes
    /\ pending_blocks # <<>>
    /\ \E point \in CrashPoints :
       \E k \in (IF point = "store" THEN 0..Len(pending_blocks) ELSE {Len(pending_blocks)}) :
       \E st \in {StoreBlocks([coin |-> coin_table, block |-> block_table, seq |-> sql_seq,
                                unflushed |-> <<>>, log |-> store_log, asked |-> <<>>,
                                status |-> "ok"],
                               SubSeq(pending_blocks, 1, k), db_files)} :
       \E added \in {add_rows(db_files, row_count, st.unflushed)} :
           /\ st.status = "ok"
           /\ last_flush' = [called |-> TRUE, pending |-> pending_blocks, files |-> db_files,
                             committed |-> committed, asked |-> st.asked]
           /\ coin_table' = st.coin
           /\ block_table' = st.block
           /\ sql_seq' = st.seq
           /\ store_log' = st.log
           /\ IF point = "store"
              THEN UNCHANGED forestVars
              ELSE added.ok /\ ForestAddRows(st.unflushed, added) /\ UNCHANGED special_calls
           /\ committed' = Durable(committed, st, point)
    /\ status' = "crashed"
    /\ last_op' = "crash"
    /\ flush_calls' = flush_calls + 1
    /\ UNCHANGED <<merge_run, codec, pending_blocks, pending_coin_count, stream, dump_out>>

\* __init__ of the next process: the tables are what was committed, the
\* buffer is empty, and RowArrayDB.__init__ lists the files of the
\* directory in the order that glob yields them.
Restart ==
    /\ status = "crashed"
    /\ status' = "ok"
    /\ last_op' = "restart"
    /\ coin_table' = committed.coin
    /\ block_table' = committed.block
    /\ sql_seq' = Len(committed.coin)
    /\ store_log' = SelectSeq(store_log,
                              LAMBDA e : \A i \in DOMAIN e.ids : e.ids[i] <= Len(committed.coin))
    /\ pending_blocks' = <<>>
    /\ pending_coin_count' = 0
    /\ \E ord \in Orders(DOMAIN db_files) :
           db_files' = [i \in DOMAIN db_files |-> db_files[ord[i]]]
    /\ row_count' = SumSeq([i \in DOMAIN db_files |-> requery_count(db_files[i])])
    /\ UNCHANGED <<forest_ok, add_calls, added_rows, batch_sizes, last_add, find_out,
                   special_calls, merge_run, codec, committed, flush_calls, stream,
                   dump_out,
                   last_flush>>

CrashNext == AcceptCrash \/ Flush \/ CrashFlush \/ Restart

SpecCrash == Init /\ [][CrashNext]_vars

----------------------------------------------------------------------------
(* Properties of the forest. *)

\* No hash was passed to add_rows twice.
AllDistinct ==
    \A i, j \in DOMAIN added_rows : added_rows[i][1] = added_rows[j][1] => i = j

AddedHashes == {added_rows[i][1] : i \in DOMAIN added_rows}

SameBag(s, t) == \A x \in Range(s) \cup Range(t) : Count(s, x) = Count(t, x)

\* The last add_rows call ran a merge.
Merged == last_add.called /\ Len(last_add.pre_merge) >= MergeThreshold

\* The files the last merge took out of the dict and the files it put in.
Replaced == SelectSeq(last_add.pre_merge, LAMBDA f : f.path \notin Paths(db_files))
Produced == SelectSeq(db_files, LAMBDA f : f.path \notin Paths(last_add.pre_merge))

\* The last add_rows call merged two files that both held rows.
MergedRows == Merged /\ Len(Replaced) = 2 /\ \A k \in DOMAIN Replaced : Replaced[k].rows # <<>>

\* C1: row_count() is the sum of the sizes of the batches added so far, and
\* the last add_rows call raised it by exactly the size of its batch.
C1_RowCountIsSumOfBatches ==
    /\ row_count = batch_sizes
    /\ last_add.called => row_count = last_add.count_before + Len(last_add.batch)

\* C1 witness: an add_rows call of a two-row batch that ran a merge.
C1_Witness ==
    /\ Merged
    /\ Len(last_add.batch) = 2
    /\ row_count = last_add.count_before + 2

\* C2: when no hash was added twice, find_hashes of hashes that were added
\* returns, for every queried hash and in the order queried, the id it was
\* added with.
C2_FindReturnsAddedIds ==
    (/\ find_out.called
     /\ AllDistinct
     /\ Range(find_out.hs) \subseteq AddedHashes)
    => /\ find_out.status = "ok"
       /\ Len(find_out.rows) = Len(find_out.hs)
       /\ \A i \in DOMAIN find_out.hs :
              /\ find_out.rows[i][1] = find_out.hs[i]
              /\ find_out.rows[i] \in Range(added_rows)

\* C2 witness: a query of two hashes, the first found in a file that a merge
\* of two non-empty files wrote and the second in another file.
C2_Witness ==
    /\ find_out.called /\ find_out.status = "ok"
    /\ AllDistinct
    /\ MergedRows
    /\ Len(find_out.hs) = 2
    /\ find_out.rows[1] \in Range(db_files[Len(db_files)].rows)
    /\ find_out.rows[2] \notin Range(db_files[Len(db_files)].rows)

\* C3: every row ever passed to add_rows is in exactly one file of the
\* forest, once.
C3_EveryRowInExactlyOneFile ==
    \A k \in DOMAIN added_rows :
        /\ Cardinality({i \in DOMAIN db_files :
                            added_rows[k] \in Range(db_files[i].rows)}) = 1
        /\ Count(AllRows(db_files), added_rows[k]) = 1

\* C3 witness: after a merge of two non-empty files, with the same hash
\* added under two ids.
C3_Witness ==
    /\ MergedRows
    /\ ~AllDistinct

C5_MergeKeepsRows ==
    Merged =>
        /\ SameBag(AllRows(db_files), AllRows(last_add.pre_merge))
        /\ Len(Replaced) = 2 /\ Len(Produced) = 1
        /\ SameBag(Produced[1].rows, AllRows(Replaced))
        /\ \A i \in DOMAIN last_add.pre_merge :
               last_add.pre_merge[i].path \in Paths(db_files)
                   => last_add.pre_merge[i] \in Range(db_files)
        /\ Len(db_files) = Len(last_add.pre_merge) - 1

\* C5 witness: a merge of two non-empty files.
C5_Witness == MergedRows /\ Len(Produced[1].rows) = 2

----------------------------------------------------------------------------
(* Properties of the coinbase codec. *)

\* The coinbase pattern: bytes 16..24 all zero and bytes 0..16 an entry of
\* COINBASE_PREFIXES.
MatchesCoinbasePattern(name) ==
    /\ \A i \in 17..24 : name[i] = 0
    /\ SubSeq(name, 1, 16) \in Range(COINBASE_PREFIXES)

\* C6: a name that matches the coinbase pattern encodes to an index that
\* decodes to the same name, and no other name drawn, of the pattern, encodes
\* to that index.
C6_NameRoundTrip ==
    (codec.op = "encode" /\ MatchesCoinbasePattern(codec.name))
    => /\ codec.index # None
       /\ codec.index[1] <= 0
       /\ codec.back = codec.name
       /\ \A other \in CodecNames :
              (MatchesCoinbasePattern(other) /\ as_coinbase_index(other) = codec.index)
                  => other = codec.name

\* C6 witness: a name with the second prefix and a non-zero counter, and the
\* name that encodes to 0.
C6_Witness ==
    /\ codec.op = "encode"
    /\ MatchesCoinbasePattern(codec.name)
    /\ codec.back = codec.name
    /\ \/ codec.index = <<0>>
       \/ (SubSeq(codec.name, 1, 16) = COINBASE_PREFIXES[2] /\ codec.name[31] = 255)

\* An index the codec can produce: not positive, the low byte of -v a
\* position of COINBASE_PREFIXES, and (-v) >> 8 within the 8 low bytes.
Encodable(v) ==
    /\ v <= 0
    /\ ((0 - v) % 256) + 1 \in DOMAIN COINBASE_PREFIXES
    /\ SubSeq(int_to_bytes((0 - v) \div 256, 16), 1, 8) = Zeros(8)

\* C7: an index the codec can produce decodes to a name that encodes to it.
C7_IndexRoundTrip ==
    (codec.op = "decode" /\ Encodable(codec.v))
    => /\ codec.name # "error"
       /\ codec.back = <<codec.v>>

\* C7 witness: an index with a non-zero counter and the second prefix.
C7_Witness ==
    /\ codec.op = "decode"
    /\ Encodable(codec.v)
    /\ codec.v < 0 - 256
    /\ (0 - codec.v) % 256 = 1
    /\ codec.back = <<codec.v>>

----------------------------------------------------------------------------
(* Properties of the pipeline. *)

\* The ids that the INSERTs into coin returned, in the order of the INSERTs
\* of the blocks stored so far.
RECURSIVE LoggedIds(_)
LoggedIds(log) == IF log = <<>> THEN <<>> ELSE Head(log).ids \o LoggedIds(Tail(log))

\* C8: on a fresh store, whatever the accept_block and flush calls made, the
\* coin rows have the ids 1, 2, 3, ... in the order of their INSERTs: each
\* INSERT returns one more than the one before it.
C8_CoinIdsCountUp ==
    /\ \A i \in DOMAIN coin_table : coin_table[i].id = i
    /\ sql_seq = Len(coin_table)
    /\ LoggedIds(store_log) = [i \in 1..Len(LoggedIds(store_log)) |-> i]
    /\ Len(LoggedIds(store_log)) = Len(coin_table)

\* C8 witness: three coins or more, committed by two flushes that each gave
\* the forest rows.
C8_Witness ==
    /\ status = "ok"
    /\ Len(committed.coin) >= 3
    /\ Len(coin_table) = Len(committed.coin)
    /\ Len(db_files) >= 2
    /\ db_files[1].rows # <<>> /\ db_files[2].rows # <<>>

\* The stream that dump_blocks would print for the blocks loaded.
StreamPrinted ==
    [k \in DOMAIN stream |->
        print_block_replay(
            [index |-> stream[k].index, timestamp |-> stream[k].timestamp,
             spends |-> [i \in DOMAIN stream[k].spends |-> NameBytes(stream[k].spends[i])],
             confirms |-> [i \in DOMAIN stream[k].confirms |->
                              [stream[k].confirms[i] EXCEPT
                                   !.parent_coin_name = NameBytes(@)]]])]

\* C9 as claimed: the dump of a stream loaded without error has the blocks of
\* the stream, with the same indices and timestamps, the same set of spend
\* names and the same set of confirm coins.
C9_DumpEqualsLoaded ==
    dump_out.called =>
        /\ dump_out.status = "ok"
        /\ Len(dump_out.out) = Len(stream)
        /\ \A k \in DOMAIN dump_out.out :
               /\ dump_out.out[k].index = StreamPrinted[k].index
               /\ dump_out.out[k].timestamp = StreamPrinted[k].timestamp
               /\ Range(dump_out.out[k].spends) = Range(StreamPrinted[k].spends)
               /\ Range(dump_out.out[k].confirms) = Range(StreamPrinted[k].confirms)

\* C10: the order in which _store_block inserts the confirms of a block is a
\* permutation of the distinct confirms of the block in which a coin whose
\* parent is the name of another confirm of the block comes after that
\* confirm; the coin rows are written in that order.
C10_ParentsInsertedFirst ==
    \A k \in DOMAIN store_log :
        LET e == store_log[k]
        IN  /\ Range(e.inserted) = Range(e.block.confirms)
            /\ Len(e.inserted) = Cardinality(Range(e.block.confirms))
            /\ \A i, j \in DOMAIN e.inserted :
                   (i # j /\ e.inserted[i].parent_coin_name = CoinName(e.inserted[j])) => j < i
            /\ Len(e.ids) = Len(e.inserted)
            /\ \A i \in DOMAIN e.ids :
                   /\ e.ids[i] \in DOMAIN coin_table
                   /\ coin_table[e.ids[i]].puzzle = e.inserted[i].puzzle_hash
                   /\ coin_table[e.ids[i]].confirmed = e.block.index
                   /\ \A j \in DOMAIN e.ids : i < j => e.ids[i] < e.ids[j]

\* C10 witness: a stored block of two confirms, parent and child, whose set
\* iterates the child first and whose rows were committed parent first.
C10_Witness ==
    /\ status = "ok"
    /\ \E k \in DOMAIN store_log :
           LET e == store_log[k]
           IN  /\ Len(e.inserted) = 2
               /\ e.set_order[1].parent_coin_name = CoinName(e.set_order[2])
               /\ e.inserted[2].parent_coin_name = CoinName(e.inserted[1])
               /\ e.ids[2] \in {committed.coin[i].id : i \in DOMAIN committed.coin}

\* The hashes in the files of a dict.
HashesOf(files) == UNION {{files[i].rows[j][1] : j \in DOMAIN files[i].rows} : i \in DOMAIN files}

\* The names of the coins that the first k blocks of the last flush confirm.
FlushConfirmed(k) ==
    UNION {{CoinName(c) : c \in Range(last_flush.pending[i].block.confirms)} : i \in 1..k}

\* Block k of the last flush has confirms that form a cycle of parent names.
Cyclic(k) ==
    \E p \in DistinctSeqs(Range(last_flush.pending[k].block.confirms), MaxConfirms) :
        /\ p # <<>>
        /\ \A i \in DOMAIN p : p[i].parent_coin_name = CoinName(p[(i % Len(p)) + 1])

\* Block k of the last flush spends a name that is not coinbase-encodable,
\* that no block of the flush up to block k confirms and that the forest
\* does not hold.
UnknownSpend(k) ==
    \E n \in Range(last_flush.pending[k].block.spends) :
        /\ NameCoinbaseIndex[n] = None
        /\ n \notin FlushConfirmed(k)
        /\ n \notin HashesOf(last_flush.files)

\* The last flush raised and left what was committed and the forest as they
\* were when it started.
FlushUndone ==
    /\ status # "ok"
    /\ committed = last_flush.committed
    /\ db_files = last_flush.files

\* Block k of the last flush confirms a coin whose parent name is not
\* coinbase-encodable, is not the name of a confirm of block k, is not in
\* the unflushed map (no earlier block of the flush confirms it) and is not
\* in the forest.
DanglingParent(k) ==
    \E c \in Range(last_flush.pending[k].block.confirms) :
        /\ NameCoinbaseIndex[c.parent_coin_name] = None
        /\ c.parent_coin_name \notin FlushConfirmed(k)
        /\ c.parent_coin_name \notin HashesOf(last_flush.files)

\* C11: a flush of a block whose confirms form a cycle of intra-block parent
\* references fails with the cycle error of the topological sort (when no
\* earlier block of the flush fails for a reason of its own), and commits
\* nothing: no coin row, no block row, no forest row.
C11_CycleFails ==
    (/\ last_flush.called
     /\ \E k \in DOMAIN last_flush.pending :
            /\ Cyclic(k)
            /\ \A j \in 1..(k - 1) : ~Cyclic(j) /\ ~DanglingParent(j) /\ ~UnknownSpend(j))
    => (status = "ValueError: Cycle detected" /\ FlushUndone)

\* C12: a flush of a block that spends a name which is not
\* coinbase-encodable, was not confirmed earlier in the flush and is not in
\* the forest fails with the error of the unknown name, and commits nothing:
\* no coin row, no block row, no forest row, no spent field changed.
C12_UnknownSpendFails ==
    (last_flush.called /\ \E k \in DOMAIN last_flush.pending : UnknownSpend(k))
    => (status = "KeyError" /\ FlushUndone)

\* C12 witness: a second flush that inserted a coin row and then met the
\* unknown spend; the tables keep the rows of the first flush only.
C12_Witness ==
    /\ last_flush.called
    /\ \E k \in DOMAIN last_flush.pending : UnknownSpend(k)
    /\ status = "KeyError"
    /\ committed.coin # <<>>
    /\ Len(coin_table) > Len(committed.coin)
    /\ db_files # <<>>

\* C13: a flush of a block with a confirm whose parent can be resolved
\* nowhere (not coinbase-encodable, not another confirm of the block, not in
\* the unflushed map, not in the forest) fails with the error of the
\* unknown name, and no coin row or block row is committed.
C13_DanglingParentFails ==
    (last_flush.called /\ \E k \in DOMAIN last_flush.pending : DanglingParent(k))
    => /\ status = "KeyError"
       /\ committed.coin = last_flush.committed.coin
       /\ committed.block = last_flush.committed.block

\* C13 witness: the second block of a flush has the dangling parent; the
\* coin row of the first block was inserted and is not committed.
C13_Witness ==
    /\ last_flush.called
    /\ Len(last_flush.pending) = 2
    /\ ~DanglingParent(1) /\ DanglingParent(2)
    /\ ~UnknownSpend(1) /\ ~UnknownSpend(2)
    /\ status = "KeyError"
    /\ Len(coin_table) > Len(committed.coin)

\* Block k of the last flush confirms coin c and coin d, c # d, the parent
\* name of d is the name of c, and that name is neither in the unflushed map
\* nor in the forest when the parents of block k are looked up.
IntraParent(k, c, d) ==
    /\ c \in Range(last_flush.pending[k].block.confirms)
    /\ d \in Range(last_flush.pending[k].block.confirms)
    /\ c # d
    /\ d.parent_coin_name = CoinName(c)
    /\ CoinName(c) \notin FlushConfirmed(k - 1)
    /\ CoinName(c) \notin HashesOf(last_flush.files)

\* C14: a flush of a block in which the parent of one confirm is another
\* confirm of the block, known neither to the unflushed map nor to the
\* forest, succeeds when nothing else of the flush is unresolvable: the
\* parent row is inserted first, the child row has the id of the parent row
\* as parent_id and the two ids are consecutive.
C14_IntraBlockParentIngested ==
    \A k \in DOMAIN last_flush.pending :
        \A c, d \in Range(last_flush.pending[k].block.confirms) :
            (/\ last_flush.called
             /\ IntraParent(k, c, d)
             /\ \A j \in DOMAIN last_flush.pending :
                    ~Cyclic(j) /\ ~DanglingParent(j) /\ ~UnknownSpend(j))
            => /\ status = "ok"
               /\ \E e \in Range(store_log) :
                      /\ e.block = last_flush.pending[k].block
                      /\ \E i, j \in DOMAIN e.inserted :
                             /\ e.inserted[i] = c /\ e.inserted[j] = d
                             /\ i < j
                             /\ e.ids[j] = e.ids[i] + 1
                             /\ e.ids[j] \in DOMAIN committed.coin
                             /\ committed.coin[e.ids[j]].parent = e.ids[i]

\* Every accepted block has been flushed and the load has not failed.
Loaded == status = "ok" /\ pending_blocks = <<>> /\ stream # <<>>

\* The indices of the blocks of the stream that spend the name n.
Spenders(n) == {j \in DOMAIN stream : n \in Range(stream[j].spends)}

\* C15: after a load, the row of a coin confirmed in block i and spent by a
\* later block j has spent = j, whether the two blocks were in one flush or
\* in two, and the row of a coin that no block spends has spent = 0.
C15_SpentIsSpendingBlock ==
    Loaded =>
        \A e \in Range(store_log) : \A p \in DOMAIN e.inserted :
            LET row == committed.coin[e.ids[p]]
                n == CoinName(e.inserted[p])
            IN  /\ \A j \in Spenders(n) : j > e.block.index => row.spent = stream[j].index
                /\ Spenders(n) = {} => row.spent = 0

\* The entries of the log for the blocks of the last flush.
FlushLog ==
    {e \in Range(store_log) :
         \E i \in DOMAIN last_flush.pending : last_flush.pending[i].block = e.block}

\* C16: in a successful flush, a confirm whose parent name is
\* coinbase-encodable gets parent_id = as_coinbase_index(parent), which is not
\* positive, and the forest is not asked for that name; the rows that the
\* flush adds to the forest are one row per coin inserted, the name of the
\* coin with its id, and none of them has a coinbase-encodable name.
C16_CoinbaseParentFolded ==
    (last_flush.called /\ status = "ok")
    => /\ \A e \in FlushLog : \A p \in DOMAIN e.inserted :
              LET parent == e.inserted[p].parent_coin_name
              IN  as_coinbase_index(NameBytes(parent)) # None
                  => /\ coin_table[e.ids[p]].parent = as_coinbase_index(NameBytes(parent))[1]
                     /\ coin_table[e.ids[p]].parent <= 0
                     /\ parent \notin Range(last_flush.asked)
       /\ Range(last_add.batch) =
              UNION {{<<CoinName(e.inserted[p]), e.ids[p]>> : p \in DOMAIN e.inserted} :
                     e \in FlushLog}
       /\ Len(last_add.batch) = Cardinality(UNION {Range(e.ids) : e \in FlushLog})
       /\ \A i \in DOMAIN last_add.batch :
              as_coinbase_index(NameBytes(last_add.batch[i][1])) = None

\* C17: find_hashes of the forest does not fail when some of the queried
\* hashes are in no file: it returns the rows of the hashes found, each with
\* the id it was added with, and the other hashes are the ones reported
\* missing.
C17_FindReportsMissing ==
    find_out.called
    => /\ find_out.status = "ok"
       /\ \A i \in DOMAIN find_out.hs :
              find_out.hs[i] \in AddedHashes
              => \E j \in DOMAIN find_out.rows :
                     /\ find_out.rows[j][1] = find_out.hs[i]
                     /\ find_out.rows[j] \in Range(added_rows)
       /\ \A j \in DOMAIN find_out.rows : find_out.rows[j][1] \in AddedHashes

\* Bytes 16..24 of the name are zero and its first 16 bytes are no entry of
\* COINBASE_PREFIXES.
ZeroWindow(n) == is_coinbase_name(NameBytes(n)) /\ PrefixLookup(SubSeq(NameBytes(n), 1, 16)) = None

\* C18: a name of the zero window without a coinbase prefix is resolved like
\* an ordinary name, as a spend and as a parent: when a block of a flush
\* refers to such a name and an earlier block of the same flush confirmed
\* the coin of that name, the flush succeeds (nothing else of it being
\* unresolvable), and a spend marks a coin row as spent by the block.
C18_ZeroWindowResolved ==
    \A k \in DOMAIN last_flush.pending :
        LET b == last_flush.pending[k].block
            refs == Range(b.spends) \cup {c.parent_coin_name : c \in Range(b.confirms)}
        IN  (/\ last_flush.called
             /\ \E n \in refs : ZeroWindow(n) /\ n \in FlushConfirmed(k - 1)
             /\ \A j \in DOMAIN last_flush.pending :
                    /\ ~Cyclic(j) /\ ~DanglingParent(j) /\ ~UnknownSpend(j)
                    /\ \A c, d \in Range(last_flush.pending[j].block.confirms) :
                           ~IntraParent(j, c, d))
            => /\ status = "ok"
               /\ \A n \in Range(b.spends) :
                      \E i \in DOMAIN committed.coin : committed.coin[i].spent = b.index

\* C19: when parse_blocks meets a malformed line, at whatever position of
\* the stream, the load ends with the parse error and nothing is committed:
\* no coin row, no block row, no forest file, also when the blocks before
\* the line went over the cache threshold.
C19_ParseErrorCommitsNothing ==
    status \in ParseErrors
    => /\ committed.coin = <<>>
       /\ committed.block = <<>>
       /\ db_files = <<>>

\* What the last flush commits when it runs to its end: the schema state it
\* reaches from what was committed when it began.
FullFlush ==
    StoreBlocks([coin |-> last_flush.committed.coin, block |-> last_flush.committed.block,
                 seq |-> Len(last_flush.committed.coin), unflushed |-> <<>>, log |-> <<>>,
                 asked |-> <<>>, status |-> "ok"],
                last_flush.pending, last_flush.files)

\* C20: when the process dies at any step of a flush, the database holds
\* either all the coin rows, spent updates and block rows of the flush or
\* none of them, and that is what the tables of the next process contain.
C20_FlushAtomic ==
    last_op \in {"crash", "restart"}
    => /\ \/ committed = last_flush.committed
          \/ \E full \in {FullFlush} :
                 /\ full.status = "ok"
                 /\ committed = [coin |-> full.coin, block |-> full.block]
       /\ last_op = "restart" => (coin_table = committed.coin /\ block_table = committed.block)

\* C20 witness: the next process after a flush that had stored its block (a
\* coin row, a spent update of a committed row, a block row) and written
\* the forest file, and died before commit; the tables hold the rows of the
\* earlier flush only.
C20_Witness ==
    /\ last_op = "restart"
    /\ committed = last_flush.committed
    /\ committed.coin # <<>>
    /\ last_flush.pending # <<>>
    /\ Len(db_files) > Len(last_flush.files)
    /\ \E full \in {FullFlush} :
           /\ full.status = "ok"
           /\ Len(full.coin) > Len(committed.coin)
           /\ \E i \in DOMAIN committed.coin : full.coin[i].spent # committed.coin[i].spent

\* C21: a forest file that a flush wrote before the process died without
\* committing is detected by the next process: in a running process every
\* row of the forest carries the id of a committed coin row, and no id is
\* in the forest under two names.
C21_OrphanFileDetected ==
    status = "ok"
    => /\ \A i \in DOMAIN db_files : \A j \in DOMAIN db_files[i].rows :
              \E c \in DOMAIN committed.coin : committed.coin[c].id = db_files[i].rows[j][2]
       /\ \A i, k \in DOMAIN db_files :
              \A j \in DOMAIN db_files[i].rows : \A l \in DOMAIN db_files[k].rows :
                  db_files[i].rows[j][2] = db_files[k].rows[l][2]
                  => db_files[i].rows[j][1] = db_files[k].rows[l][1]

\* The id that the forest resolves the name n to.
Resolve(files, n) == forest_find_hashes(files, <<n>>, NameOrder).rows[1][2]

\* C22: the name-to-id mapping is stable: after every step of a running
\* process, each name that a flush has bound to an id (a row it passed to
\* add_rows) is resolved by the forest to that id; and no step changes or
\* removes the id, parent_id, puzzle, amount or confirmed field of a coin
\* row.
C22_MappingStable ==
    [][/\ status' = "ok"
          => \A i \in DOMAIN added_rows' :
                 Resolve(db_files', added_rows'[i][1]) = added_rows'[i][2]
       /\ \A i \in DOMAIN committed.coin :
              /\ i \in DOMAIN committed'.coin
              /\ [committed'.coin[i] EXCEPT !.spent = 0] = [committed.coin[i] EXCEPT !.spent = 0]]_vars

\* The blocks of a buffer, without the iteration orders of their sets.
BlocksOf(pending) == [i \in DOMAIN pending |-> pending[i].block]

\* C23: accept_block appends the block to the buffer and adds the number of
\* its confirms to pending_coin_count, and it calls flush, on the buffer with
\* the block in it, exactly when the new count is greater than cache_size.
C23_FlushIffOverCacheSize ==
    [][stream' # stream
       => LET b == stream'[Len(stream')]
              count == pending_coin_count + Len(b.confirms)
              flushed == last_flush' # last_flush
          IN  /\ flushed <=> count > cache_size
              /\ flushed => BlocksOf(last_flush'.pending) = Append(BlocksOf(pending_blocks), b)
              /\ ~flushed => /\ BlocksOf(pending_blocks') = Append(BlocksOf(pending_blocks), b)
                             /\ pending_coin_count' = count]_vars

\* C23 witness: accept_block has brought the count to exactly cache_size,
\* with a block of one confirm or more, and has not flushed.
C23_Witness ==
    /\ last_op = "accept"
    /\ status = "ok"
    /\ pending_coin_count = cache_size
    /\ pending_blocks # <<>>
    /\ pending_blocks[Len(pending_blocks)].block.confirms # <<>>
    /\ ~last_flush.called

\* The last step ran flush(): called by the driver, called by accept_block,
\* or ended by the death of the process.
FlushJustRan ==
    /\ last_flush.called
    /\ \/ last_op \in {"flush", "crash"}
       \/ /\ last_op = "accept"
          /\ last_flush.pending # <<>>
          /\ last_flush.pending[Len(last_flush.pending)].block = stream[Len(stream)]

\* The ids of the block rows, and the ids they have when the last flush has
\* stored all its blocks in the order they were accepted.
BlockIds(rows) == [i \in DOMAIN rows |-> rows[i].id]
FlushedBlockIds ==
    BlockIds(last_flush.committed.block)
        \o [i \in DOMAIN last_flush.pending |-> last_flush.pending[i].block.index]

\* C24: the steps of a flush that does not raise come in this order: the
\* blocks are stored one by one in the order they were accepted; add_rows
\* is called once, after the last block was stored, with the names bound in
\* the flush; the buffer and the counter are reset; then the transaction
\* commits.  So a process that dies in the flush has written no forest file
\* before all blocks were stored and has committed nothing before the
\* forest file was written.
C24_FlushStepsInOrder ==
    (FlushJustRan /\ status \in {"ok", "crashed"})
    => /\ Len(block_table) <= Len(FlushedBlockIds)
       /\ BlockIds(block_table) = SubSeq(FlushedBlockIds, 1, Len(block_table))
       /\ db_files # last_flush.files
          => /\ BlockIds(block_table) = FlushedBlockIds
             /\ Len(db_files) = Len(last_flush.files) + 1
             /\ {last_add.batch[i][1] : i \in DOMAIN last_add.batch}
                    = FlushConfirmed(Len(last_flush.pending))
             /\ \A i \in DOMAIN last_add.batch :
                    last_add.batch[i][2] \in {coin_table[c].id : c \in DOMAIN coin_table}
       /\ committed # last_flush.committed => db_files # last_flush.files
       /\ status = "ok"
          => /\ db_files # last_flush.files
             /\ pending_blocks = <<>>
             /\ pending_coin_count = 0
             /\ committed = [coin |-> coin_table, block |-> block_table]

\* C24 witness: a process that died in a flush of two blocks after both
\* were stored and the forest file was written, and before commit.
C24_Witness ==
    /\ last_op = "crash"
    /\ Len(last_flush.pending) = 2
    /\ db_files # last_flush.files
    /\ committed = last_flush.committed
    /\ Len(block_table) = 2
    /\ last_add.batch # <<>>

\* ---------------------------------------------------------------------------
\* C25: each call of add_rows performs at most one merge, and performs it
\* exactly when the number of files, the new file included, is at least 10;
\* the merge replaces two files by one, and no file it leaves alone has fewer
\* rows than either of the two it replaced.
C25_OneMergeOfSmallestTwo ==
    last_add.called /\ forest_ok
    => LET pre == last_add.pre_merge
       IN  IF Len(pre) >= MergeThreshold
           THEN /\ Len(db_files) = Len(pre) - 1
                /\ Len(Replaced) = 2
                /\ Len(Produced) = 1
                /\ \A i \in DOMAIN pre :
                       pre[i].path \in Paths(db_files)
                       => /\ \E j \in DOMAIN db_files : db_files[j] = pre[i]
                          /\ \A k \in DOMAIN Replaced :
                                 pre[i].row_count >= Replaced[k].row_count
           ELSE db_files = pre

\* A merge whose two inputs are not the first two files of the dict, with a
\* larger file left alone.
C25_Witness ==
    /\ Merged /\ forest_ok
    /\ Len(Replaced) = 2
    /\ \E i \in DOMAIN db_files : \A k \in DOMAIN Replaced :
           db_files[i].row_count > Replaced[k].row_count
    /\ last_add.pre_merge[1].path \in Paths(db_files)

\* ---------------------------------------------------------------------------
\* The least n >= 1 that is the name of no file of the dict.
LeastUnused(files, n) ==
    /\ n >= 1
    /\ n \notin Paths(files)
    /\ \A k \in 1..(n - 1) : k \in Paths(files)

\* The dict as the last call of add_rows found it.
FilesBeforeAdd == SubSeq(last_add.pre_merge, 1, Len(last_add.pre_merge) - 1)

\* The file the last call of add_rows created.
NewFile == last_add.pre_merge[Len(last_add.pre_merge)]

\* C26: the name add_rows gives its new file is the smallest n >= 1 that no
\* file of the forest holds, and so is the name merge gives the merged file,
\* chosen while both inputs are still in the dict: neither writes to the path
\* of a file of the forest, and no two files of the forest share a path.
C26_NewNameIsLeastUnused ==
    /\ \A i, j \in DOMAIN db_files : db_files[i].path = db_files[j].path => i = j
    /\ last_add.called
       => /\ LeastUnused(FilesBeforeAdd, NewFile.path)
          /\ Merged /\ forest_ok
             => \A k \in DOMAIN Produced : LeastUnused(last_add.pre_merge, Produced[k].path)

\* add_rows gives its new file a number that a merge has freed: a number
\* below that of a file of the forest.
C26_Witness ==
    /\ last_add.called /\ forest_ok
    /\ add_calls > MergeThreshold
    /\ \E i \in DOMAIN FilesBeforeAdd : NewFile.path < FilesBeforeAdd[i].path
    /\ NewFile.path \notin Paths(FilesBeforeAdd)

\* ---------------------------------------------------------------------------
\* The files of the dict are in ascending order of their names.
AscendingNames(files) ==
    \A i, j \in DOMAIN files : i < j => files[i].path < files[j].path

C28_ConfirmsInNameOrder ==
    \A e \in Range(store_log) : \A i, j \in DOMAIN e.inserted :
        (/\ i < j
         /\ e.inserted[j].parent_coin_name # CoinName(e.inserted[i])
         /\ e.inserted[i].parent_coin_name # CoinName(e.inserted[j]))
        => BytesLess(NameBytes(CoinName(e.inserted[i])), NameBytes(CoinName(e.inserted[j])))

\* ---------------------------------------------------------------------------
\* The rows the per-key searches found, in query order.
SingleFound == SelectSeq(find_out.single, LAMBDA r : r # None)

\* C29: on a file sorted ascending by hash, the multi-key descent over
\* [0, row_count) gives what the per-key binary search gives for each query on
\* its own: the same found rows (each as often), missing exactly the queries
\* that are the hash of no row of the file, which are the queries the per-key
\* search does not find, and every query either found or missing.
C29_SearchModesAgree ==
    find_out.called
    => /\ \A r \in Range(find_out.rows) \cup Range(SingleFound) :
              Count(find_out.rows, r) = Count(SingleFound, r)
       /\ find_out.missing =
              {h \in Range(find_out.hs) :
                   \A i \in DOMAIN find_out.db.rows : find_out.db.rows[i][1] # h}
       /\ find_out.missing =
              {find_out.hs[i] : i \in {k \in DOMAIN find_out.hs : find_out.single[k] = None}}
       /\ \A h \in Range(find_out.hs) :
              (h \in find_out.missing) <=> ~(\E r \in Range(find_out.rows) : r[1] = h)

\* A descent that splits: a file of four rows with a repeated hash, and a
\* query of three hashes of which one is below row mid and found, one is the
\* repeated hash, and one is missing.
C29_Witness ==
    /\ find_out.called
    /\ find_out.db.row_count = MaxFileRows
    /\ \E i \in DOMAIN find_out.db.rows : i > 1 /\ find_out.db.rows[i][1] = find_out.db.rows[i - 1][1]
    /\ Len(find_out.hs) = MaxSearchQuery
    /\ Len(find_out.rows) = 2
    /\ Cardinality(find_out.missing) = 1
    /\ \E r \in Range(find_out.rows) : r[2] = 1

\* ---------------------------------------------------------------------------
\* load_blocks has returned without error: its closing flush has run.
LoadReturned == status = "ok" /\ flush_calls = 1 /\ last_op = "flush"

C30_WitnessFinalFlush ==
    /\ LoadReturned
    /\ Len(last_flush.pending) = MaxBlocks
    /\ last_flush.committed.block = <<>>
    /\ Len(committed.block) = MaxBlocks

\* ---------------------------------------------------------------------------
\* list_int_from_bytes(list_int_to_bytes(xs)) = xs.
RoundTrips(xs) ==
    \E blob \in {list_int_to_bytes(xs)} :
        blob # "OverflowError" /\ list_int_from_bytes(blob) = xs

\* The names that the blocks of the last flush spend and that are resolved as
\* coinbase names, without a query of the forest.
CoinbaseSpendNames ==
    {n \in UNION {Range(last_flush.pending[k].block.spends) : k \in DOMAIN last_flush.pending} :
         NameCoinbaseIndex[n] # None}

\* (NameCoinbaseIndex[n] is the index as a list of one id, None being empty.)
\* C31: the blobs of a block row encode every id the pipeline can put in
\* them, and the encoding round-trips: the confirm ids of every block stored,
\* and the non-positive ids that spends of coinbase names resolve to; no
\* block fails in the encoding.
C31_BlobRoundTrips ==
    /\ status # "OverflowError"
    /\ \A e \in Range(store_log) : RoundTrips(e.ids)
    /\ \A n \in CoinbaseSpendNames : RoundTrips(NameCoinbaseIndex[n])

\* ---------------------------------------------------------------------------
\* C32: at construction and after every call of add_rows, the merge inside it
\* included, the total row count the forest caches is the sum of the row
\* counts of its files, the row count every file caches is the count derived
\* anew from the file, and no assertion on these counts has failed.
C32_CachedCountsAgree ==
    /\ forest_ok
    /\ row_count = SumSeq([i \in DOMAIN db_files |-> db_files[i].row_count])
    /\ \A i \in DOMAIN db_files : db_files[i].row_count = requery_count(db_files[i])

\* After a merge of two files that held rows, with files of different sizes
\* in the forest.
C32_Witness ==
    /\ MergedRows
    /\ forest_ok
    /\ row_count > Len(db_files)
    /\ row_count = SumSeq([i \in DOMAIN db_files |-> db_files[i].row_count])

\* ---------------------------------------------------------------------------
\* C33: from an empty forest, whenever add_rows has returned the forest holds
\* at most 9 files; it holds 10 only inside add_rows, before the merge.
C33_AtMostNineFiles ==
    /\ Len(db_files) <= MergeThreshold - 1
    /\ last_add.called => Len(last_add.pre_merge) <= MergeThreshold

\* add_rows has just had 10 files and left 9.
C33_Witness ==
    /\ last_add.called /\ forest_ok
    /\ Len(last_add.pre_merge) = MergeThreshold
    /\ Len(db_files) = MergeThreshold - 1
    /\ add_calls > MergeThreshold

\* ---------------------------------------------------------------------------
\* The confirms of the blocks in the buffer.
PendingConfirms == SumSeq([i \in DOMAIN pending_blocks |-> Len(pending_blocks[i].block.confirms)])

\* C34: whenever accept_block or flush has returned normally,
\* pending_coin_count is the number of confirms of the blocks in
\* pending_blocks and at most cache_size; after flush the buffer is empty and
\* the count is zero.
C34_PendingCountIsBufferedConfirms ==
    (status = "ok" /\ last_op \in {"accept", "flush"})
    => /\ pending_coin_count = PendingConfirms
       /\ pending_coin_count <= cache_size
       /\ last_op = "flush" => pending_blocks = <<>> /\ pending_coin_count = 0

\* Two blocks in the buffer whose confirms add up to cache_size.
C34_Witness ==
    /\ status = "ok" /\ last_op = "accept"
    /\ Len(pending_blocks) = 2
    /\ \A i \in DOMAIN pending_blocks : pending_blocks[i].block.confirms # <<>>
    /\ pending_coin_count = cache_size

\* ---------------------------------------------------------------------------
\* C35: a flush with no block in the buffer, or with blocks that confirm no
\* coin, leaves the files of the forest as they were: no new file, no merge.
C35_EmptyFlushLeavesForest ==
    (/\ last_flush.called
     /\ status = "ok"
     /\ \A k \in DOMAIN last_flush.pending : last_flush.pending[k].block.confirms = <<>>)
    => db_files = last_flush.files

\* ---------------------------------------------------------------------------
\* The ids of the rows of the forest, file by file.
ForestIds == [i \in DOMAIN AllRows(db_files) |-> AllRows(db_files)[i][2]]

\* C36: after every successful flush the ids in the forest are exactly the
\* ids of the coin rows, each coin id in exactly one row of the forest, also
\* when a coin is confirmed by two blocks of a flush or of different flushes.
C36_ForestAgreesWithCoinTable ==
    status = "ok"
    => /\ \A c \in DOMAIN committed.coin : Count(ForestIds, committed.coin[c].id) = 1
       /\ \A i \in DOMAIN ForestIds :
              \E c \in DOMAIN committed.coin : committed.coin[c].id = ForestIds[i]

\* ---------------------------------------------------------------------------
\* C37: in every state of the coin table, a coin row with a positive
\* parent id has parent < id, and a coin row of that id exists: the parent
\* was inserted before its child.
C37_ParentBeforeChild ==
    \A i \in DOMAIN coin_table :
        coin_table[i].parent > 0
        => /\ coin_table[i].parent < coin_table[i].id
           /\ \E j \in DOMAIN coin_table : coin_table[j].id = coin_table[i].parent

\* A child row whose parent row was committed by an earlier flush.
C37_Witness ==
    /\ status = "ok"
    /\ \E i \in DOMAIN committed.coin :
           /\ committed.coin[i].parent > 0
           /\ \E j \in DOMAIN last_flush.committed.coin :
                  last_flush.committed.coin[j].id = committed.coin[i].parent
           /\ committed.coin[i].confirmed > 1

\* ---------------------------------------------------------------------------
\* The file of the path on disk, None when there is none.
OnDisk(path) ==
    IF path \in Paths(merge_run.disk)
    THEN CHOOSE f \in Range(merge_run.disk) : f.path = path
    ELSE None

\* C38: during a merge the merged file is completely written before either
\* input is removed, so at every step of merge, and after the death of the
\* process at any step, every row of the forest is in a file on disk.
C38_MergeLosesNoRow ==
    /\ \A r \in Range(merge_run.rows) :
           \E i \in DOMAIN merge_run.disk : r \in Range(merge_run.disk[i].rows)
    /\ (\E k \in DOMAIN merge_run.inputs : OnDisk(merge_run.inputs[k]) = None)
       => /\ OnDisk(merge_run.merged_db_path) # None
          /\ \A r \in Range(merge_run.rows) :
                 (\A i \in DOMAIN merge_run.disk :
                      merge_run.disk[i].path # merge_run.merged_db_path
                      => r \notin Range(merge_run.disk[i].rows))
                 => r \in Range(OnDisk(merge_run.merged_db_path).rows)

\* The process has died after the first input was removed and before the
\* second was: the rows of both are in the merged file.
C38_Witness ==
    /\ merge_run.crashed
    /\ OnDisk(merge_run.inputs[1]) = None
    /\ OnDisk(merge_run.inputs[2]) # None
    /\ OnDisk(merge_run.merged_db_path) # None
    /\ Len(OnDisk(merge_run.merged_db_path).rows) = 2

\* ---------------------------------------------------------------------------
\* C39: every read_row(i) that the searches issue, started on
\* [0, row_count), has 0 <= i < row_count of the file, whatever the size of
\* the file (0 included) and the query list: no search reads an ordinal the
\* file does not hold.
C39_ReadsInsideFile ==
    find_out.called
    => \A i \in find_out.trace.reads :
           /\ 0 <= i /\ i < find_out.db.row_count
           /\ read_row(find_out.db, i) # None

\* A search that reads the first and the last row of a file of four rows.
C39_Witness ==
    /\ find_out.called
    /\ find_out.db.row_count = MaxFileRows
    /\ 0 \in find_out.trace.reads
    /\ (MaxFileRows - 1) \in find_out.trace.reads

\* C40: the multi-key descent ends for every file and every query list,
\* repeated and absent queries included: each loop iteration and each
\* recursive call goes on with a window [lo, hi) strictly smaller than the
\* one before, which lies inside it.
C40_WindowsShrink ==
    find_out.called
    => \A s \in find_out.trace.steps :
           /\ s.to[2] - s.to[1] < s.from[2] - s.from[1]
           /\ s.from[1] <= s.to[1] /\ s.to[2] <= s.from[2]
           /\ s.from[1] < s.from[2]

\* A descent of a query with a repeated and an absent hash that goes on with
\* windows below and above row mid, down to an empty window.
C40_Witness ==
    /\ find_out.called
    /\ find_out.db.row_count = MaxFileRows
    /\ Len(find_out.hs) = MaxSearchQuery
    /\ \E i, j \in DOMAIN find_out.hs : i # j /\ find_out.hs[i] = find_out.hs[j]
    /\ find_out.missing # {}
    /\ \E s, t \in find_out.trace.steps :
           /\ s.from = <<0, MaxFileRows>> /\ t.from = <<0, MaxFileRows>>
           /\ s.to[2] < t.to[1]
    /\ \E s \in find_out.trace.steps : s.to[1] = s.to[2]

====
